---------------------------- MODULE Spec2Model ----------------------------
(***************************************************************************)
(* A model of whoop-mcp-server: the Local Store (database.ts), the Sync    *)
(* Engine (sync.ts), the Upstream API Gateway (whoop-client.ts) and the    *)
(* tool handlers that drive them (index.ts).                               *)
(*                                                                         *)
(* Time.  Date.now() is an integer count of ticks since the epoch; one     *)
(* second is Second ticks, so that instants inside one second exist.  The  *)
(* text SQLite's CURRENT_TIMESTAMP writes, 'YYYY-MM-DD HH:MM:SS' in UTC    *)
(* with no zone designator, is modelled by the number of whole seconds it  *)
(* reads as a UTC wall clock; an ISO date 'YYYY-MM-DD' by its day number.  *)
(*                                                                         *)
(* Values.  Every column value is an integer or a string; SQL NULL and a   *)
(* JavaScript null/undefined are NULL.  An optional object (score?) is a   *)
(* sequence: <<>> when absent, <<object>> when present.                    *)
(***************************************************************************)
EXTENDS Integers, Sequences, FiniteSets, TLC

VARIABLES
    now,        \* Date.now(), in ticks
    tz,         \* the host's time-zone offset (local = UTC + tz), in ticks
    tables,     \* the four record tables: kind -> set of rows
    syncState,  \* the sync_state row (id = 1)
    tokenRow,   \* the tokens row (id = 1): <<>> when there is none, else <<row>>
    held,       \* WhoopClient.tokens: <<>> for null, else <<pair>>
    auth,       \* upstream's token endpoint: the refresh tokens it honours
    req,        \* the request() invocations in flight on the Gateway
    call,       \* the tool calls (and the /callback sync) in flight
    ev          \* the last operation that ran, with what it read and returned

vars == <<now, tz, tables, syncState, tokenRow, held, auth, req, call, ev>>

-----------------------------------------------------------------------------
(* Time *)

Second == 2
Minute == 60 * Second
Hour == 60 * Minute
Day == 24 * Hour

\* the instant the model's clock starts at: past the 90-day window, on a
\* whole second
Epoch == 100 * Day

NULL == -1

\* SQLite's CURRENT_TIMESTAMP: the UTC wall clock, cut to whole seconds
CurrentTimestamp(t) == t \div Second

\* the instant a 'YYYY-MM-DD HH:MM:SS' text denotes when read as UTC
UtcInstant(text) == text * Second

-----------------------------------------------------------------------------
(* Upstream records (types.ts) *)

Kinds == {"cycles", "recovery", "sleep", "workouts"}

\* the user every upstream record belongs to
UserId == 3 + 4

CycleScoreA == [strain |-> 12, kilojoule |-> 8000, average_heart_rate |-> 70,
                max_heart_rate |-> 150]

RecoveryScoreA == [user_calibrating |-> 0, recovery_score |-> 66,
                   resting_heart_rate |-> 55, hrv_rmssd_milli |-> 48,
                   spo2_percentage |-> 97, skin_temp_celsius |-> 33]

\* spo2_percentage? and skin_temp_celsius? are optional within a score
RecoveryScoreB == [user_calibrating |-> 0, recovery_score |-> 30,
                   resting_heart_rate |-> 61, hrv_rmssd_milli |-> 35,
                   spo2_percentage |-> NULL, skin_temp_celsius |-> NULL]

SleepScoreA ==
    [stage_summary |->
        [total_in_bed_time_milli |-> 28800000, total_awake_time_milli |-> 1800000,
         total_no_data_time_milli |-> 0, total_light_sleep_time_milli |-> 14400000,
         total_slow_wave_sleep_time_milli |-> 7200000,
         total_rem_sleep_time_milli |-> 5400000, sleep_cycle_count |-> 4,
         disturbance_count |-> 6],
     sleep_needed |->
        [baseline_milli |-> 27000000, need_from_sleep_debt_milli |-> 600000,
         need_from_recent_strain_milli |-> 300000, need_from_recent_nap_milli |-> 0],
     respiratory_rate |-> 15, sleep_performance_percentage |-> 91,
     sleep_consistency_percentage |-> 80, sleep_efficiency_percentage |-> 93]

WorkoutScoreA ==
    [strain |-> 9, average_heart_rate |-> 130, max_heart_rate |-> 171,
     kilojoule |-> 2100, percent_recorded |-> 100,
     zone_duration |->
        [zone_zero_milli |-> 1000, zone_one_milli |-> 2000, zone_two_milli |-> 3000,
         zone_three_milli |-> 4000, zone_four_milli |-> 5000, zone_five_milli |-> 6000]]

ScoreState(score) == IF score = <<>> THEN "PENDING_SCORE" ELSE "SCORED"

\* record id's start (or creation) instant: id 1 is the newest
StartOf(id) == Epoch - id * Day

Cycle(id, uid, score) ==
    [id |-> id, user_id |-> uid, start |-> StartOf(id),
     end |-> IF id = 1 THEN NULL ELSE StartOf(id) + Day,
     timezone_offset |-> 0, score_state |-> ScoreState(score), score |-> score]

Recovery(id, uid, score) ==
    [cycle_id |-> id, sleep_id |-> 100 + id, user_id |-> uid,
     created_at |-> StartOf(id) + 8 * Hour, updated_at |-> StartOf(id) + 9 * Hour,
     score_state |-> ScoreState(score), score |-> score]

Sleep(id, uid, score) ==
    [id |-> 100 + id, user_id |-> uid, created_at |-> StartOf(id) + 8 * Hour,
     updated_at |-> StartOf(id) + 9 * Hour, start |-> StartOf(id),
     end |-> StartOf(id) + 8 * Hour, timezone_offset |-> 0, nap |-> (id # 1),
     score_state |-> ScoreState(score), score |-> score]

Workout(id, uid, score) ==
    [id |-> 200 + id, user_id |-> uid, created_at |-> StartOf(id) + 11 * Hour,
     updated_at |-> StartOf(id) + 12 * Hour, start |-> StartOf(id) + 10 * Hour,
     end |-> StartOf(id) + 11 * Hour, timezone_offset |-> 0, sport_id |-> 1,
     score_state |-> ScoreState(score), score |-> score]

\* what upstream can return of each kind: record 1 before and after it is
\* scored, record 2 scored, and record 2 with a required field (user_id)
\* missing from the payload
Universe(kind) ==
    CASE kind = "cycles" ->
            {Cycle(1, UserId, <<>>), Cycle(1, UserId, <<CycleScoreA>>),
             Cycle(2, UserId, <<CycleScoreA>>), Cycle(2, NULL, <<CycleScoreA>>)}
      [] kind = "recovery" ->
            {Recovery(1, UserId, <<>>), Recovery(1, UserId, <<RecoveryScoreA>>),
             Recovery(2, UserId, <<RecoveryScoreB>>), Recovery(2, NULL, <<RecoveryScoreB>>)}
      [] kind = "sleep" ->
            {Sleep(1, UserId, <<>>), Sleep(1, UserId, <<SleepScoreA>>),
             Sleep(2, UserId, <<SleepScoreA>>), Sleep(2, NULL, <<SleepScoreA>>)}
      [] kind = "workouts" ->
            {Workout(1, UserId, <<>>), Workout(1, UserId, <<WorkoutScoreA>>),
             Workout(2, UserId, <<WorkoutScoreA>>), Workout(2, NULL, <<WorkoutScoreA>>)}

-----------------------------------------------------------------------------
(* Local Store: rows and upserts (database.ts) *)

\* score?.f ?? null
Opt(score, f) == IF score = <<>> THEN NULL ELSE score[1][f]

\* score?.g.f ?? null
Opt2(score, g, f) == IF score = <<>> THEN NULL ELSE score[1][g][f]

\* the values upsertCycles binds for one record; synced_at = CURRENT_TIMESTAMP
CycleRow(c, ts) ==
    [id |-> c.id, user_id |-> c.user_id, start_time |-> c.start, end_time |-> c.end,
     score_state |-> c.score_state, strain |-> Opt(c.score, "strain"),
     kilojoule |-> Opt(c.score, "kilojoule"),
     avg_hr |-> Opt(c.score, "average_heart_rate"),
     max_hr |-> Opt(c.score, "max_heart_rate"), synced_at |-> ts]

RecoveryRow(r, ts) ==
    [id |-> r.cycle_id, user_id |-> r.user_id, sleep_id |-> r.sleep_id,
     created_at |-> r.created_at, score_state |-> r.score_state,
     recovery_score |-> Opt(r.score, "recovery_score"),
     resting_hr |-> Opt(r.score, "resting_heart_rate"),
     hrv_rmssd |-> Opt(r.score, "hrv_rmssd_milli"),
     spo2 |-> Opt(r.score, "spo2_percentage"),
     skin_temp |-> Opt(r.score, "skin_temp_celsius"), synced_at |-> ts]

\* cycle_id is a column of the table that the INSERT does not name
SleepRow(s, ts) ==
    [id |-> s.id, user_id |-> s.user_id, cycle_id |-> NULL, start_time |-> s.start,
     end_time |-> s.end, is_nap |-> IF s.nap THEN 1 ELSE 0,
     score_state |-> s.score_state,
     total_in_bed_milli |-> Opt2(s.score, "stage_summary", "total_in_bed_time_milli"),
     total_awake_milli |-> Opt2(s.score, "stage_summary", "total_awake_time_milli"),
     total_light_milli |-> Opt2(s.score, "stage_summary", "total_light_sleep_time_milli"),
     total_deep_milli |-> Opt2(s.score, "stage_summary", "total_slow_wave_sleep_time_milli"),
     total_rem_milli |-> Opt2(s.score, "stage_summary", "total_rem_sleep_time_milli"),
     sleep_performance |-> Opt(s.score, "sleep_performance_percentage"),
     sleep_efficiency |-> Opt(s.score, "sleep_efficiency_percentage"),
     sleep_consistency |-> Opt(s.score, "sleep_consistency_percentage"),
     respiratory_rate |-> Opt(s.score, "respiratory_rate"),
     sleep_needed_baseline_milli |-> Opt2(s.score, "sleep_needed", "baseline_milli"),
     sleep_needed_debt_milli |-> Opt2(s.score, "sleep_needed", "need_from_sleep_debt_milli"),
     sleep_needed_strain_milli |-> Opt2(s.score, "sleep_needed", "need_from_recent_strain_milli"),
     synced_at |-> ts]

WorkoutRow(w, ts) ==
    [id |-> w.id, user_id |-> w.user_id, sport_id |-> w.sport_id,
     start_time |-> w.start, end_time |-> w.end, score_state |-> w.score_state,
     strain |-> Opt(w.score, "strain"), avg_hr |-> Opt(w.score, "average_heart_rate"),
     max_hr |-> Opt(w.score, "max_heart_rate"), kilojoule |-> Opt(w.score, "kilojoule"),
     zone_zero_milli |-> Opt2(w.score, "zone_duration", "zone_zero_milli"),
     zone_one_milli |-> Opt2(w.score, "zone_duration", "zone_one_milli"),
     zone_two_milli |-> Opt2(w.score, "zone_duration", "zone_two_milli"),
     zone_three_milli |-> Opt2(w.score, "zone_duration", "zone_three_milli"),
     zone_four_milli |-> Opt2(w.score, "zone_duration", "zone_four_milli"),
     zone_five_milli |-> Opt2(w.score, "zone_duration", "zone_five_milli"),
     synced_at |-> ts]

RowOf(kind, rec, ts) ==
    CASE kind = "cycles" -> CycleRow(rec, ts)
      [] kind = "recovery" -> RecoveryRow(rec, ts)
      [] kind = "sleep" -> SleepRow(rec, ts)
      [] kind = "workouts" -> WorkoutRow(rec, ts)

\* the columns the schema declares NOT NULL, the primary key apart (and
\* score_state apart, a text column every payload of the model carries)
NotNullColumns(kind) ==
    CASE kind = "cycles" -> {"user_id", "start_time"}
      [] kind = "recovery" -> {"user_id", "created_at"}
      [] kind = "sleep" -> {"user_id", "start_time", "end_time", "is_nap"}
      [] kind = "workouts" -> {"user_id", "sport_id", "start_time", "end_time"}

\* the primary key an upsert binds: the record's id, a recovery's cycle_id
KeyOf(kind, rec) == IF kind = "recovery" THEN rec.cycle_id ELSE rec.id

\* the columns filled from the record's score
ScoreColumns(kind) ==
    CASE kind = "cycles" -> {"strain", "kilojoule", "avg_hr", "max_hr"}
      [] kind = "recovery" ->
            {"recovery_score", "resting_hr", "hrv_rmssd", "spo2", "skin_temp"}
      [] kind = "sleep" ->
            {"total_in_bed_milli", "total_awake_milli", "total_light_milli",
             "total_deep_milli", "total_rem_milli", "sleep_performance",
             "sleep_efficiency", "sleep_consistency", "respiratory_rate",
             "sleep_needed_baseline_milli", "sleep_needed_debt_milli",
             "sleep_needed_strain_milli"}
      [] kind = "workouts" ->
            {"strain", "avg_hr", "max_hr", "kilojoule", "zone_zero_milli",
             "zone_one_milli", "zone_two_milli", "zone_three_milli",
             "zone_four_milli", "zone_five_milli"}

\* stmt.run throws on a row that breaks a NOT NULL constraint
RunFails(kind, row) == \E col \in NotNullColumns(kind) : row[col] = NULL

\* a table with no primary key: every INSERT adds a row
InsertNoKey(table, row) == table \cup {row}

\* an upsert that merges: a column the new row leaves NULL keeps the value
\* of the row it replaces
InsertOrMerge(table, row) ==
    LET old == {x \in table : x.id = row.id}
        merged == IF old = {} THEN row
                  ELSE [c \in DOMAIN row |->
                            IF c # "score_state" /\ row[c] = NULL
                            THEN (CHOOSE x \in old : TRUE)[c] ELSE row[c]]
    IN  (table \ old) \cup {merged}

\* a write that clears the table before it inserts
InsertAfterDelete(table, row) == {row}

EmptyTables == [k \in Kinds |-> {}]

EmptySyncState ==
    [last_sync_at |-> NULL, oldest_synced_date |-> NULL, newest_synced_date |-> NULL]

\* INSERT OR REPLACE: the row holding the new row's primary key, if any,
\* is deleted, and the new row is inserted
InsertOrReplace(table, row) == {x \in table : x.id # row.id} \cup {row}

\* the body of the transaction function: stmt.run for each item in turn;
\* the first that throws ends the loop, with what was written so far
RECURSIVE RunAll(_, _, _)
RunAll(kind, table, rows) ==
    IF rows = <<>> THEN [ok |-> TRUE, table |-> table]
    ELSE IF RunFails(kind, Head(rows)) THEN [ok |-> FALSE, table |-> table]
    ELSE RunAll(kind, InsertOrReplace(table, Head(rows)), Tail(rows))

\* no ROLLBACK: what the loop wrote before it threw stays
TransactionNoRollback(table, result) == result

\* db.transaction(fn): COMMIT when fn returns, ROLLBACK and rethrow when
\* it throws
Transaction(table, result) ==
    IF result.ok THEN result ELSE [ok |-> FALSE, table |-> table]

\* one upsert method: every item bound to a row stamped CURRENT_TIMESTAMP
\* at t, all run in one transaction.  ok = FALSE: the method threw.
Upsert(kind, table, items, t) ==
    Transaction(table,
        RunAll(kind, table,
               [i \in 1..Len(items) |-> RowOf(kind, items[i], CurrentTimestamp(t))]))

upsertCycles(table, cycles, t) == Upsert("cycles", table, cycles, t)

upsertRecoveries(table, recoveries, t) == Upsert("recovery", table, recoveries, t)

upsertSleeps(table, sleeps, t) == Upsert("sleep", table, sleeps, t)

upsertWorkouts(table, workouts, t) == Upsert("workouts", table, workouts, t)

\* ORDER BY created_at ASC LIMIT 1
getLatestRecoveryAscending(table) ==
    IF table = {} THEN <<>>
    ELSE <<CHOOSE r \in table : \A q \in table : r.created_at <= q.created_at>>

\* SELECT * FROM recovery ORDER BY created_at DESC LIMIT 1: null (<<>>)
\* on an empty table, else a row no other row's created_at exceeds.
\* created_at is the payload's ISO-8601 UTC text, whose order as text is
\* the order of the instants
getLatestRecovery(table) ==
    IF table = {} THEN <<>>
    ELSE <<CHOOSE r \in table : \A q \in table : q.created_at <= r.created_at>>

-----------------------------------------------------------------------------------------------------------------------------------------------------
(* Credential Store (crypto.ts, database.ts).  A text is the sequence of  *)
(* its ':'-separated parts, as split(':') gives them; a part is <<>> when  *)
(* it is empty and a tuple headed by what it is otherwise.  A token, which *)
(* holds no ':', is a text of one part.                                    *)

IV_LENGTH == 16

\* the one value the model draws for randomBytes(IV_LENGTH), in hex
Iv == <<"iv">>

\* a part of a legacy text that is as long as an IV in hex
Wide == <<"wide">>

\* the part a token makes: empty for the empty token
Part(token) == IF token = NULL THEN <<>> ELSE <<"token", token>>

\* a token as the text the row holds in the clear
Plain(token) == <<Part(token)>>

\* the empty string
EmptyText == Plain(NULL)

\* the token a text of one part is
TokenOf(text) == IF text[1] = <<>> THEN NULL ELSE text[1][2]

\* parts[0].length
PartLength(part) ==
    IF part = <<>> THEN 0
    ELSE IF part \in {Iv, Wide} THEN IV_LENGTH * 2
    ELSE 1

\* the AES-256-GCM ciphertext and authentication tag of a text under the
\* configured key, in hex; the ciphertext of the empty text is empty
Cipher(text) == IF text = EmptyText THEN <<>> ELSE <<"ciphertext", text>>
AuthTag(text) == <<"tag", text>>

\* `${iv}:${authTag}:${encrypted}`
encrypt(text) == <<Iv, AuthTag(text), Cipher(text)>>

\* split(':'), then the text whose ciphertext the third part is
decrypt(encryptedData) == encryptedData[3][2]

\* the first three parts are an IV, the ciphertext of a text and the tag
\* of that text: what decipher.final() requires
Authentic(encryptedData) ==
    /\ encryptedData[1] = Iv
    /\ Len(encryptedData[3]) = 2
    /\ encryptedData[3][1] = "ciphertext"
    /\ encryptedData[2] = AuthTag(encryptedData[3][2])

\* decrypt throws 'Invalid encrypted data format' on an empty or missing
\* part among the first three
InvalidFormat(encryptedData) ==
    \/ Len(encryptedData) < 3
    \/ encryptedData[1] = <<>>
    \/ encryptedData[2] = <<>>
    \/ encryptedData[3] = <<>>

\* decrypt throws: on the format, or on what fails to authenticate
decryptThrows(encryptedData) ==
    InvalidFormat(encryptedData) \/ ~Authentic(encryptedData)

DecryptError == <<"Invalid encrypted data format">>

AuthenticationError == <<"Unsupported state or unable to authenticate data">>

\* three parts, the first of IV_LENGTH * 2 hex digits
isEncrypted(data) == Len(data) = 3 /\ PartLength(data[1]) = IV_LENGTH * 2

\* a save that writes the tokens as they are, as the legacy store did
saveTokensPlain(tokens, t) ==
    <<[access_token |-> Plain(tokens.access_token),
       refresh_token |-> Plain(tokens.refresh_token),
       expires_at |-> tokens.expires_at, updated_at |-> CurrentTimestamp(t)]>>

\* saveTokens: INSERT OR REPLACE INTO tokens with both tokens encrypted
saveTokens(tokens, t) ==
    <<[access_token |-> encrypt(Plain(tokens.access_token)),
       refresh_token |-> encrypt(Plain(tokens.refresh_token)),
       expires_at |-> tokens.expires_at, updated_at |-> CurrentTimestamp(t)]>>

\* getTokens throws when a column it decrypts makes decrypt throw
getTokensThrows(row) ==
    /\ row # <<>>
    /\ \E column \in {row[1].access_token, row[1].refresh_token} :
            isEncrypted(column) /\ decryptThrows(column)

\* a column as getTokens reads it: decrypted when isEncrypted says so,
\* taken as it is otherwise
Column(data) == IF isEncrypted(data) THEN decrypt(data) ELSE data

\* getTokens: null without a row, the pair of its columns otherwise
getTokens(row) ==
    IF row = <<>> THEN <<>>
    ELSE <<[access_token |-> TokenOf(Column(row[1].access_token)),
            refresh_token |-> TokenOf(Column(row[1].refresh_token)),
            expires_at |-> row[1].expires_at]>>

-----------------------------------------------------------------------------
(* The Credential Store on its own: saveTokens, getTokens and the round   *)
(* trip of a text through encrypt and decrypt, under every configuration  *)
(* of the two secrets.  Here auth is process.env, held is what getTokens  *)
(* last returned and ev is the last step: what it was, the text or the    *)
(* pair it was given, the row before it, what it returned (out) and the   *)
(* error it threw, with the pair the row was last saved from (saved).     *)

MaxToken == 2

\* a secret of process.env: "" when it is unset or empty
Secrets == {"", "secret"}

Environments == [ENCRYPTION_SECRET : Secrets, WHOOP_CLIENT_SECRET : Secrets]

KeyError == <<"No encryption secret available">>

\* a key that falls back on a built-in secret when none is configured
getEncryptionKeyBuiltIn(env) ==
    IF env.ENCRYPTION_SECRET # "" THEN <<env.ENCRYPTION_SECRET>>
    ELSE IF env.WHOOP_CLIENT_SECRET # "" THEN <<env.WHOOP_CLIENT_SECRET>>
    ELSE <<"built-in">>

\* getEncryptionKey: <<>> when it throws, the secret the key derives from
\* otherwise
getEncryptionKey(env) ==
    LET secret == IF env.ENCRYPTION_SECRET # "" THEN env.ENCRYPTION_SECRET
                  ELSE env.WHOOP_CLIENT_SECRET
    IN  IF secret = "" THEN <<>> ELSE <<secret>>

\* the error encrypt throws on a text, <<>> when it returns
encryptError(env, text) == IF getEncryptionKey(env) = <<>> THEN KeyError ELSE <<>>

\* the error decrypt throws on a text, <<>> when it returns
decryptError(env, encryptedData) ==
    IF getEncryptionKey(env) = <<>> THEN KeyError
    ELSE IF InvalidFormat(encryptedData) THEN DecryptError
    ELSE IF ~Authentic(encryptedData) THEN AuthenticationError
    ELSE <<>>

\* the error getTokens throws on a row: that of the first column whose
\* decrypt throws
getTokensError(env, row) ==
    IF row = <<>> THEN <<>>
    ELSE IF isEncrypted(row[1].access_token)
            /\ decryptError(env, row[1].access_token) # <<>>
         THEN decryptError(env, row[1].access_token)
    ELSE IF isEncrypted(row[1].refresh_token)
         THEN decryptError(env, row[1].refresh_token)
    ELSE <<>>

\* the texts put through encrypt and decrypt: "", "1", "2", "1:2", "1:",
\* ":" and a text of three parts whose first is as long as an IV
Texts ==
    {EmptyText, Plain(1), Plain(2), <<Part(1), Part(2)>>, <<Part(1), <<>>>>,
     <<<<>>, <<>>>>, <<Wide, Part(1), Part(2)>>}

\* the pairs given to saveTokens
TokenPairs ==
    [access_token : 1..MaxToken \cup {NULL}, refresh_token : 1..MaxToken \cup {NULL},
     expires_at : {Epoch + Hour}]

\* the rows a deployment can start with: none, a pair saved by saveTokens,
\* a legacy pair in the clear, a legacy pair whose access token reads as
\* encrypted
CryptoRows ==
    {<<>>}
    \cup {saveTokens(tokens, Epoch) : tokens \in TokenPairs}
    \cup {saveTokensPlain(tokens, Epoch) : tokens \in TokenPairs}
    \cup {<<[access_token |-> <<Wide, Part(1), Part(2)>>, refresh_token |-> Plain(1),
             expires_at |-> Epoch + Hour, updated_at |-> CurrentTimestamp(Epoch)]>>}

CryptoEvent(op) ==
    [op |-> op, text |-> <<>>, tokens |-> <<>>, before |-> tokenRow,
     out |-> <<>>, error |-> <<>>, saved |-> ev.saved]

CryptoInit ==
    /\ now = Epoch
    /\ tz = 0
    /\ tables = EmptyTables
    /\ syncState = EmptySyncState
    /\ tokenRow \in CryptoRows
    /\ held = <<>>
    /\ auth \in Environments
    /\ req = <<>>
    /\ call = <<>>
    /\ ev = [op |-> "none", text |-> <<>>, tokens |-> <<>>, before |-> tokenRow,
             out |-> <<>>, error |-> <<>>, saved |-> <<>>]

\* db.saveTokens(tokens): both encrypts come before the INSERT OR REPLACE
SaveTokens(tokens) ==
    LET error == IF encryptError(auth, Plain(tokens.access_token)) # <<>>
                 THEN encryptError(auth, Plain(tokens.access_token))
                 ELSE encryptError(auth, Plain(tokens.refresh_token))
    IN  /\ tokenRow' = IF error = <<>> THEN saveTokens(tokens, now) ELSE tokenRow
        /\ ev' = [CryptoEvent("saveTokens") EXCEPT
                    !.tokens = <<tokens>>, !.error = error,
                    !.saved = IF error = <<>> THEN <<tokens>> ELSE ev.saved]
        /\ UNCHANGED <<now, tz, tables, syncState, held, auth, req, call>>

\* db.getTokens()
GetTokens ==
    LET error == getTokensError(auth, tokenRow)
    IN  /\ held' = IF error = <<>> THEN getTokens(tokenRow) ELSE held
        /\ ev' = [CryptoEvent("getTokens") EXCEPT
                    !.out = IF error = <<>> THEN <<getTokens(tokenRow)>> ELSE <<>>,
                    !.error = error]
        /\ UNCHANGED <<now, tz, tables, syncState, tokenRow, auth, req, call>>

\* decrypt(encrypt(text))
RoundTrip(text) ==
    LET error == IF encryptError(auth, text) # <<>> THEN encryptError(auth, text)
                 ELSE decryptError(auth, encrypt(text))
    IN  /\ ev' = [CryptoEvent("roundtrip") EXCEPT
                    !.text = <<text>>,
                    !.out = IF error = <<>> THEN <<decrypt(encrypt(text))>> ELSE <<>>,
                    !.error = error]
        /\ UNCHANGED <<now, tz, tables, syncState, tokenRow, held, auth, req, call>>

CryptoNext ==
    \/ \E tokens \in TokenPairs : SaveTokens(tokens)
    \/ GetTokens
    \/ \E text \in Texts : RoundTrip(text)

SpecCrypto == CryptoInit /\ [][CryptoNext]_vars

-----------------------------------------------------------------------------
(* Upstream API Gateway (whoop-client.ts).  held is this.tokens: <<>> for  *)
(* null, <<pair>> otherwise.  A token is the number of the grant that      *)
(* issued it; NULL stands for a refresh token that is missing or empty.    *)

RefreshMargin == 5 * Minute

\* a refresh only once the token has expired
NeedsRefreshOnceExpired(tokens, t) == tokens.expires_at - t < 0

\* a refresh also at exactly five minutes
NeedsRefreshInclusive(tokens, t) == tokens.expires_at - t <= RefreshMargin

\* this.tokens.expires_at - Date.now() < 5 * 60 * 1000
NeedsRefresh(tokens, t) == tokens.expires_at - t < RefreshMargin

\* the token pair built from a grant's response at t
GrantedTokens(grant, expires_in, t) ==
    [access_token |-> grant, refresh_token |-> grant, expires_at |-> t + expires_in]

\* request() up to its first await: what it does with the tokens it holds
RequestEntry(tokens, t) ==
    IF tokens = <<>> THEN "not_authenticated"
    ELSE IF NeedsRefresh(tokens[1], t)
         THEN IF tokens[1].refresh_token = NULL THEN "no_refresh_token"
              ELSE "post_grant"
         ELSE "get"

\* the messages of the errors request() and refreshTokens() throw: before
\* any await, on the token endpoint's refusal, on the API's refusal
EntryError(entry) ==
    IF entry = "not_authenticated" THEN <<"Not authenticated">>
    ELSE <<"No refresh token available">>

RefreshError(body) == <<"Token refresh failed: ", body>>

RequestError(status, body) == <<"API request failed: ", status, " ", body>>

\* the refusal upstream answers with: response.status and response.text()
Refusals == {[status |-> "401", body |-> "Unauthorized"]}

\* a request that goes on to its GET after the token endpoint's rejection
RejectedProceeds(q, tokens) ==
    [q EXCEPT !.pc = "fetching", !.bearer = tokens[1].access_token]

\* refreshTokens on a response that is not ok: it throws, and request()
\* with it
Rejected(q, tokens) == [q EXCEPT !.pc = "threw"]

\* a refresh that replaces the held pair and tells nobody
NotifyNobody(row, tokens, t) == row

\* this.onTokenRefresh?.(this.tokens), wired to db.saveTokens
OnTokenRefresh(row, tokens, t) == saveTokens(tokens, t)

-----------------------------------------------------------------------------
(* The Gateway on its own: callers that each make one request() after     *)
(* another, as a getAll loop does, while time passes, tool handlers reload *)
(* the stored pair and /callback exchanges codes.                          *)

MaxReq == 2
MaxGrants == 2

Callers == 1..MaxReq

\* the lifetimes upstream grants: five minutes at the least
ExpiresIn == {RefreshMargin, Hour}

MaxJitter == 1

\* the instants the clock is read at: the start and the instant a token
\* granted then for an hour enters the margin, and a few instants after each
GwInstants == {Epoch + a + b : a \in {0, Hour - RefreshMargin}, b \in 0..MaxJitter}

\* a caller's request(): where it is, whether it found the held token
\* inside the margin, the refresh token it sent to the token endpoint and
\* the access token its GET bears
IdleRequest == [pc |-> "idle", expiring |-> FALSE, sent |-> NULL, bearer |-> NULL]

\* the rows a deployment can start with: none; a pair saved by saveTokens;
\* a legacy plaintext pair; a legacy pair with an empty refresh token
InitialRows ==
    {<<>>,
     saveTokens(GrantedTokens(1, Hour, Epoch), Epoch),
     saveTokensPlain(GrantedTokens(1, Hour, Epoch), Epoch),
     saveTokensPlain([GrantedTokens(1, RefreshMargin, Epoch) EXCEPT
                        !.refresh_token = NULL], Epoch)}

\* ev: the last Gateway step: what it was, whose, and the held pair and
\* the stored row before it; failed tells that the token endpoint has
\* rejected a refresh since the last authorization-code exchange
GwInit ==
    /\ now = Epoch
    /\ tz = 0
    /\ tables = EmptyTables
    /\ syncState = EmptySyncState
    /\ tokenRow \in InitialRows
    /\ held = getTokens(tokenRow)
    /\ auth = [valid |-> IF held = <<>> THEN {} ELSE {held[1].refresh_token} \ {NULL},
               issued |-> IF held = <<>> THEN 0 ELSE 1]
    /\ req = [r \in Callers |-> IdleRequest]
    /\ call = <<>>
    /\ ev = [op |-> "none", r |-> 0, heldBefore |-> held, rowBefore |-> tokenRow,
             failed |-> FALSE]

GwEvent(op, r) ==
    [op |-> op, r |-> r, heldBefore |-> held, rowBefore |-> tokenRow,
     failed |-> ev.failed]

\* no request() is between the return of refreshTokens and its GET
Settled == \A r \in Callers : req[r].pc # "refreshed"

\* request(), from its call to its first await
GwRequest(r) ==
    LET entry == RequestEntry(held, now)
        q == [req[r] EXCEPT !.sent = NULL, !.bearer = NULL,
                            !.expiring = entry \in {"no_refresh_token", "post_grant"}]
    IN  /\ Settled
        /\ req[r].pc \in {"idle", "returned", "threw"}
        /\ req' = [req EXCEPT ![r] =
                CASE entry = "not_authenticated" -> [q EXCEPT !.pc = "threw"]
                  [] entry = "no_refresh_token" -> [q EXCEPT !.pc = "threw"]
                  [] entry = "post_grant" ->
                        [q EXCEPT !.pc = "refreshing", !.sent = held[1].refresh_token]
                  [] entry = "get" ->
                        [q EXCEPT !.pc = "fetching", !.bearer = held[1].access_token]]
        /\ ev' = GwEvent(entry, r)
        /\ UNCHANGED <<now, tz, tables, syncState, tokenRow, held, auth, call>>

\* refreshTokens after a response that is ok: the held pair replaced, the
\* callback run; upstream has rotated the refresh token
GwRefreshOk(r) ==
    /\ Settled
    /\ req[r].pc = "refreshing"
    /\ req[r].sent \in auth.valid
    /\ auth.issued < MaxGrants
    /\ \E expires_in \in ExpiresIn :
        LET tokens == GrantedTokens(auth.issued + 1, expires_in, now)
        IN  /\ held' = <<tokens>>
            /\ tokenRow' = OnTokenRefresh(tokenRow, tokens, now)
    /\ auth' = [valid |-> (auth.valid \ {req[r].sent}) \cup {auth.issued + 1},
                issued |-> auth.issued + 1]
    /\ req' = [req EXCEPT ![r].pc = "refreshed"]
    /\ ev' = GwEvent("refreshed", r)
    /\ UNCHANGED <<now, tz, tables, syncState, call>>

\* request() resumed after await this.refreshTokens(): the GET, with the
\* access token held now
GwResume(r) ==
    /\ req[r].pc = "refreshed"
    /\ req' = [req EXCEPT ![r].pc = "fetching", ![r].bearer = held[1].access_token]
    /\ ev' = GwEvent("get_after_refresh", r)
    /\ UNCHANGED <<now, tz, tables, syncState, tokenRow, held, auth, call>>

\* refreshTokens after a response that is not ok (upstream may reject any
\* grant, and rejects a refresh token it has rotated away)
GwRefreshRejected(r) ==
    /\ Settled
    /\ req[r].pc = "refreshing"
    /\ req' = [req EXCEPT ![r] = Rejected(req[r], held)]
    /\ ev' = [GwEvent("refresh_rejected", r) EXCEPT !.failed = TRUE]
    /\ UNCHANGED <<now, tz, tables, syncState, tokenRow, held, auth, call>>

\* the GET's response: ok, or not (request() throws 'API request failed')
GwResponse(r) ==
    /\ Settled
    /\ req[r].pc = "fetching"
    /\ \E pc \in {"returned", "threw"} :
        req' = [req EXCEPT ![r] = [IdleRequest EXCEPT !.pc = pc]]
    /\ ev' = GwEvent("response", r)
    /\ UNCHANGED <<now, tz, tables, syncState, tokenRow, held, auth, call>>

\* a tool handler: tokens = db.getTokens(); client.setTokens(tokens)
GwSetTokens ==
    /\ Settled
    /\ tokenRow # <<>>
    /\ held' = getTokens(tokenRow)
    /\ ev' = GwEvent("set_tokens", 0)
    /\ UNCHANGED <<now, tz, tables, syncState, tokenRow, auth, req, call>>

\* /callback: exchangeCodeForTokens on a response that is ok, then
\* db.saveTokens(tokens)
GwExchange ==
    /\ Settled
    /\ auth.issued < MaxGrants
    /\ \E expires_in \in ExpiresIn :
        LET tokens == GrantedTokens(auth.issued + 1, expires_in, now)
        IN  /\ held' = <<tokens>>
            /\ tokenRow' = saveTokens(tokens, now)
    /\ auth' = [valid |-> auth.valid \cup {auth.issued + 1}, issued |-> auth.issued + 1]
    /\ ev' = [GwEvent("exchange", 0) EXCEPT !.failed = FALSE]
    /\ UNCHANGED <<now, tz, tables, syncState, req, call>>

\* time passes
GwTick ==
    /\ Settled
    /\ \E t \in GwInstants :
        /\ t > now
        /\ now' = t
    /\ ev' = GwEvent("tick", 0)
    /\ UNCHANGED <<tz, tables, syncState, tokenRow, held, auth, req, call>>

GwNext ==
    \/ \E r \in Callers : GwRequest(r)
    \/ \E r \in Callers : GwRefreshOk(r)
    \/ \E r \in Callers : GwResume(r)
    \/ \E r \in Callers : GwRefreshRejected(r)
    \/ \E r \in Callers : GwResponse(r)
    \/ GwSetTokens
    \/ GwExchange
    \/ GwTick

SpecGateway == GwInit /\ [][GwNext]_vars

-----------------------------------------------------------------------------
(* The store on its own: an upsert method applied, and applied again, to   *)
(* a batch and a store drawn at the start.                                 *)

MaxBatch == 2
MaxOps == 2

\* how far the clock of the store's specification runs
StoreHorizon == Epoch + Second

SeqsUpTo(S, n) == UNION {[1..m -> S] : m \in 0..n}

Batches(kind) == SeqsUpTo(Universe(kind), MaxBatch)

\* the tables an earlier sync, an hour before, can have left
EarlierStores(kind) ==
    {Upsert(kind, {}, items, Epoch - Hour).table : items \in Batches(kind)}

\* ev: the batch and kind under test, the table before the last call,
\* whether the call threw, when it ran, when the call before it ran, and
\* the number of calls so far
StoreInit ==
    /\ now = Epoch
    /\ tz = 0
    /\ syncState = EmptySyncState
    /\ tokenRow = <<>>
    /\ held = <<>>
    /\ auth = [valid |-> {}, issued |-> 0]
    /\ req = <<>>
    /\ call = <<>>
    /\ \E kind \in Kinds :
        \E items \in Batches(kind), S \in EarlierStores(kind) :
            /\ tables = [EmptyTables EXCEPT ![kind] = S]
            /\ ev = [kind |-> kind, batch |-> items, before |-> S, threw |-> FALSE,
                     at |-> NULL, prevAt |-> NULL, n |-> 0]

\* what a call of an upsert method leaves behind: the table, and the
\* record of the call
StoreCall(kind, result) ==
    /\ ev.n < MaxOps
    /\ tables' = [tables EXCEPT ![kind] = result.table]
    /\ ev' = [ev EXCEPT !.before = tables[kind], !.threw = ~result.ok, !.at = now,
                        !.prevAt = ev.at, !.n = ev.n + 1]
    /\ UNCHANGED <<now, tz, syncState, tokenRow, held, auth, req, call>>

UpsertCycles ==
    /\ ev.kind = "cycles"
    /\ StoreCall("cycles", upsertCycles(tables["cycles"], ev.batch, now))

UpsertRecoveries ==
    /\ ev.kind = "recovery"
    /\ StoreCall("recovery", upsertRecoveries(tables["recovery"], ev.batch, now))

UpsertSleeps ==
    /\ ev.kind = "sleep"
    /\ StoreCall("sleep", upsertSleeps(tables["sleep"], ev.batch, now))

UpsertWorkouts ==
    /\ ev.kind = "workouts"
    /\ StoreCall("workouts", upsertWorkouts(tables["workouts"], ev.batch, now))

\* time passes between two calls: less than a second, or a second
StoreTick ==
    /\ \E d \in {1, Second} :
        /\ now + d <= StoreHorizon
        /\ now' = now + d
    /\ UNCHANGED <<tz, tables, syncState, tokenRow, held, auth, req, call, ev>>

StoreNext ==
    \/ UpsertCycles
    \/ UpsertRecoveries
    \/ UpsertSleeps
    \/ UpsertWorkouts
    \/ StoreTick

SpecStore == StoreInit /\ [][StoreNext]_vars

-----------------------------------------------------------------------------
(* Sync Engine (sync.ts) and the handlers that drive it (index.ts) *)

\* the host's zone offsets the model draws from: UTC-1, UTC, UTC+1
TimeZones == {0 - Hour, 0, Hour}

\* new Date(text).getTime() for a text 'YYYY-MM-DD HH:MM:SS': with no zone
\* designator the text is read as the wall clock of the host's zone
DateParse(text, zone) == text * Second - zone

\* smartSync's decision from the sync-state it reads and Date.now()
smartSync(state, t, zone) ==
    IF state.last_sync_at = NULL THEN "full"
    ELSE IF t - DateParse(state.last_sync_at, zone) < Hour THEN "skip"
    ELSE "quick"

\* every sync over 90 days
WindowDaysAlwaysFull(type) == 90

\* the days of the window: syncDays(90) for 'full' and for a manual full
\* sync, quickSync() = syncDays(7) for 'quick'
WindowDays(type) == IF type = "quick" THEN 7 ELSE 90

\* toISOString().split('T')[0], as a day number
IsoDate(t) == t \div Day

\* an update that widens the dates and leaves last_sync_at alone
updateSyncStateNoStamp(state, oldestDate, newestDate, t) ==
    [last_sync_at |-> state.last_sync_at,
     oldest_synced_date |->
        IF state.oldest_synced_date = NULL \/ oldestDate < state.oldest_synced_date
        THEN oldestDate ELSE state.oldest_synced_date,
     newest_synced_date |->
        IF state.newest_synced_date = NULL \/ newestDate > state.newest_synced_date
        THEN newestDate ELSE state.newest_synced_date]

\* an update that stores the dates it is passed
updateSyncStateOverwrite(state, oldestDate, newestDate, t) ==
    [last_sync_at |-> CurrentTimestamp(t),
     oldest_synced_date |-> oldestDate,
     newest_synced_date |-> newestDate]

\* updateSyncState: last_sync_at stamped, the date range widened
updateSyncState(state, oldestDate, newestDate, t) ==
    [last_sync_at |-> CurrentTimestamp(t),
     oldest_synced_date |->
        IF state.oldest_synced_date = NULL \/ oldestDate < state.oldest_synced_date
        THEN oldestDate ELSE state.oldest_synced_date,
     newest_synced_date |->
        IF state.newest_synced_date = NULL \/ newestDate > state.newest_synced_date
        THEN newestDate ELSE state.newest_synced_date]

\* the message of the error a statement's run throws on a NULL bound to a
\* NOT NULL column of the kind's table
ConstraintError(kind) == <<"NOT NULL constraint failed: ", kind>>

\* upserts that run from workouts back to cycles
KindOrderReversed == <<"workouts", "sleep", "recovery", "cycles">>

\* the order syncDays upserts in
KindOrder == <<"cycles", "recovery", "sleep", "workouts">>

\* syncDays after Promise.all: each kind with a non-empty result upserted in
\* turn; an upsert that throws ends the call, what earlier kinds committed
\* stays
RECURSIVE UpsertFrom(_, _, _, _)
UpsertFrom(i, tabs, got, t) ==
    IF i > Len(KindOrder) THEN [ok |-> TRUE, tables |-> tabs, error |-> <<>>]
    ELSE LET kind == KindOrder[i]
             result == Upsert(kind, tabs[kind], got[kind], t)
         IN  IF got[kind] = <<>> THEN UpsertFrom(i + 1, tabs, got, t)
             ELSE IF result.ok
                  THEN UpsertFrom(i + 1, [tabs EXCEPT ![kind] = result.table], got, t)
                  ELSE [ok |-> FALSE, tables |-> tabs, error |-> ConstraintError(kind)]

DataTools == {"get_today", "get_recovery_trends", "get_sleep_analysis", "get_strain_history"}

\* the two ways the handler treats its sync: dataTools.includes(name), or
\* case 'sync_data'
ToolClass(tool) == IF tool \in DataTools THEN "data" ELSE tool

\* a handler without its outer catch: the error of sync_data's sync leaves it
ToolResultEscapes(tool, ok) ==
    CASE tool = "data" -> "ok"
      [] tool = "sync_data" -> IF ok THEN "ok" ELSE "threw"
      [] OTHER -> "none"

\* every handler reports its sync's failure
ToolResultSurfaced(tool, ok) ==
    CASE tool \in {"data", "sync_data"} -> IF ok THEN "ok" ELSE "error"
      [] OTHER -> "none"

\* what a handler answers once its sync has ended: a data tool swallows a
\* failure and answers from the store, sync_data reports it, /callback has
\* answered already
ToolResult(tool, ok) ==
    CASE tool = "data" -> "ok"
      [] tool = "sync_data" -> IF ok THEN "ok" ELSE "error"
      [] OTHER -> "none"

\* the tools that are neither data tools nor sync_data: get_auth_url, and a
\* name the switch does not know
OtherTools == {"get_auth_url", "get_weather"}

\* the message of the McpError the switch's default throws
UnknownTool(name) == <<"Unknown tool: ", name>>

\* the text of the answer when no pair is stored
NotAuthenticated == <<"Not authenticated with Whoop. Use get_auth_url to authorize first.">>

\* a catch that reports no message
ErrorResultUnknown(error) == <<"Error: ", "Unknown error">>

\* the handler's catch: `Error: ${message}`, isError
ErrorResult(error) == <<"Error: ">> \o error

\* every answer the text of an error result
ResultTextAlwaysError(result, error) == ErrorResult(error)

\* the text of an answer, where the model follows it: the instruction to
\* authorize, and the message of an error result
ResultText(result, error) ==
    CASE result = "noauth" -> NotAuthenticated
      [] result = "error" -> ErrorResult(error)
      [] OTHER -> <<>>

\* a handler whose queries delete the rows they have returned
QueriedAndDeleted(tool, result, tabs) ==
    IF tool = "data" /\ result = "ok" THEN EmptyTables ELSE tabs

\* the tables after the queries and the formatting of a handler's answer:
\* getLatest*, get*ByDateRange and get*Trends run SELECT statements only
Queried(tool, result, tabs) == tabs

\* the tables a data tool's queries read when it answers
ResultRead(tool, result, tabs) ==
    IF tool = "data" /\ result = "ok" THEN <<tabs>> ELSE <<>>

-----------------------------------------------------------------------------
(* The system: sessions calling tools, /callback, the fetches of the       *)
(* syncs in flight, time passing.  Sync 0 is the one /callback starts.     *)

MaxSessions == 1
MaxCalls == 1
MaxHours == 1
MaxFlights == 1

Sessions == 1..MaxSessions
Syncs == 0..MaxSessions

\* the instants the clock is read at: whole hours after the start, and the
\* last instant before each
Instants == {t \in {Epoch + h * Hour - j : h \in 0..MaxHours, j \in {0, 1}} : t >= Epoch}

\* one record of a kind as upstream returns it
Record(kind, id, uid, scored) ==
    CASE kind = "cycles" -> Cycle(id, uid, IF scored THEN <<CycleScoreA>> ELSE <<>>)
      [] kind = "recovery" -> Recovery(id, uid, IF scored THEN <<RecoveryScoreA>> ELSE <<>>)
      [] kind = "sleep" -> Sleep(id, uid, IF scored THEN <<SleepScoreA>> ELSE <<>>)
      [] kind = "workouts" -> Workout(id, uid, IF scored THEN <<WorkoutScoreA>> ELSE <<>>)

\* upstream with record 1 of every kind not scored yet
PendingWorld == [k \in Kinds |-> <<Record(k, 1, UserId, FALSE)>>]

\* what upstream holds inside the window, kind by kind: nothing; record 1
\* of every kind, scored, with an older recovery after the newest; two
\* cycles and one workout, with no recovery and no sleep; and record 1 of
\* every kind with a recovery whose payload lacks user_id
Worlds ==
    {[k \in Kinds |-> <<>>],
     [k \in Kinds |-> IF k = "recovery"
                      THEN <<Record(k, 1, UserId, TRUE), Record(k, 2, UserId, FALSE)>>
                      ELSE <<Record(k, 1, UserId, TRUE)>>],
     [k \in Kinds |-> IF k = "cycles"
                      THEN <<Record(k, 1, UserId, FALSE), Record(k, 2, UserId, TRUE)>>
                      ELSE IF k = "workouts" THEN <<Record(k, 1, UserId, TRUE)>>
                      ELSE <<>>],
     [k \in Kinds |-> IF k = "recovery"
                      THEN <<Record(k, 1, UserId, TRUE), Record(k, 2, NULL, TRUE)>>
                      ELSE <<Record(k, 1, UserId, TRUE)>>]}

\* a getAll* call: where it is, the refresh token it sent, the start and
\* end it asks for, the records it has brought
IdleFetch == [pc |-> "idle", sent |-> NULL, start |-> NULL, end |-> NULL, records |-> <<>>]

\* a handler's call: where it is, the tool, smartSync's decision, the days
\* of each syncDays it has called (windows), the days and the instant of
\* the one in flight, its answer, and the calls the session has made
IdleCall == [pc |-> "idle", tool |-> "none", type |-> "none", windows |-> <<>>,
             days |-> 0, at |-> NULL, error |-> <<>>, result |-> "none",
             text |-> <<>>, read |-> <<>>, n |-> 0]

\* the four getAll* calls of syncDays, each run up to the first await of
\* its first request(): all four read the same held pair
StartFetches(tokens, t, days) ==
    LET entry == RequestEntry(tokens, t)
        asked == [IdleFetch EXCEPT !.start = t - days * Day, !.end = t]
    IN  [k \in Kinds |->
            CASE entry = "post_grant" ->
                    [asked EXCEPT !.pc = "refreshing", !.sent = tokens[1].refresh_token]
              [] entry = "get" -> [asked EXCEPT !.pc = "fetching"]
              [] OTHER -> [IdleFetch EXCEPT !.pc = "failed"]]

InFlight(s) == \E k \in Kinds : req[s][k].pc \in {"refreshing", "fetching"}

\* fewer than so many syncs are in flight
MayStartOf(flights) == Cardinality({s \in DOMAIN call : InFlight(s)}) < flights

\* the model lets MaxFlights syncs be in flight at once
MayStart == MayStartOf(MaxFlights)

\* the rows a deployment can start with: none, or a pair saved by saveTokens
StoredRows == {<<>>, saveTokens(GrantedTokens(1, Hour, Epoch), Epoch)}

\* the SyncStats syncDays returns: the length of each result
SyncStats(got) ==
    [cycles |-> Len(got["cycles"]), recoveries |-> Len(got["recovery"]),
     sleeps |-> Len(got["sleep"]), workouts |-> Len(got["workouts"])]

\* a syncDays that leaves sync-state alone when it has fetched nothing
MergeUnlessEmpty(tabs, state, got, days, at, t) ==
    LET merged == UpsertFrom(1, tabs, got, t)
        nothing == \A k \in Kinds : got[k] = <<>>
    IN  [ok |-> merged.ok,
         tables |-> merged.tables,
         error |-> merged.error,
         syncState |-> IF merged.ok /\ ~nothing
                       THEN updateSyncState(state, IsoDate(at - days * Day), IsoDate(at), t)
                       ELSE state,
         stats |-> IF merged.ok THEN <<SyncStats(got)>> ELSE <<>>]

\* a syncDays that returns after its upserts and leaves updateSyncState to
\* a later turn of the event loop
MergeBeforeState(tabs, state, got, days, at, t) ==
    LET merged == UpsertFrom(1, tabs, got, t)
    IN  [ok |-> merged.ok,
         tables |-> merged.tables,
         error |-> merged.error,
         syncState |-> state,
         stats |-> IF merged.ok THEN <<SyncStats(got)>> ELSE <<>>]

\* syncDays from Promise.all's result on: the upserts, then updateSyncState
\* and the stats returned, unless an upsert threw
Merge(tabs, state, got, days, at, t) ==
    LET merged == UpsertFrom(1, tabs, got, t)
    IN  [ok |-> merged.ok,
         tables |-> merged.tables,
         error |-> merged.error,
         syncState |-> IF merged.ok
                       THEN updateSyncState(state, IsoDate(at - days * Day), IsoDate(at), t)
                       ELSE state,
         stats |-> IF merged.ok THEN <<SyncStats(got)>> ELSE <<>>]

\* the instants an earlier sync can have completed at: an hour before the
\* start, and a second less than an hour
EarlierSyncs == {Epoch - Hour, Epoch - Hour + Second}

\* the store a deployment can start with: never synced, or as a full sync
\* left it when record 1 of every kind was not scored yet
EarlierStore(t) ==
    IF t = NULL THEN [ok |-> TRUE, tables |-> EmptyTables, error |-> <<>>,
                      syncState |-> EmptySyncState, stats |-> <<>>]
    ELSE Merge(EmptyTables, EmptySyncState, PendingWorld, 90, t, t)

Store == [tables |-> tables, syncState |-> syncState, tokenRow |-> tokenRow]

\* ev: the last step, the sync it belongs to, the store before it, the
\* error it raised, if any, and the stats its syncDays returned, if it did
Event(op, s) == [op |-> op, s |-> s, before |-> Store, error |-> <<>>, stats |-> <<>>]

Raised(op, s, error) == [Event(op, s) EXCEPT !.error = error]

Init ==
    /\ now = Epoch
    /\ tz \in TimeZones
    /\ tokenRow \in StoredRows
    /\ \E t \in {NULL} \cup (IF tokenRow = <<>> THEN {} ELSE EarlierSyncs) :
        /\ tables = EarlierStore(t).tables
        /\ syncState = EarlierStore(t).syncState
    /\ held = getTokens(tokenRow)
    /\ \E world \in Worlds :
        auth = [valid |-> IF held = <<>> THEN {} ELSE {held[1].refresh_token},
                issued |-> IF held = <<>> THEN 0 ELSE 1,
                data |-> world]
    /\ req = [s \in Syncs |-> [k \in Kinds |-> IdleFetch]]
    /\ call = [s \in Syncs |-> IdleCall]
    /\ ev = [op |-> "none", s |-> 0, error |-> <<>>, stats |-> <<>>,
             before |-> [tables |-> tables, syncState |-> syncState, tokenRow |-> tokenRow]]

\* the CallTool handler for a data tool or sync_data, up to its first await
\* or, when it awaits nothing, to its answer, with so many syncs let be in
\* flight at once
CallToolOf(s, tool, full, flights) ==
    LET thrown == getTokensThrows(tokenRow)
        tokens == IF thrown THEN <<>> ELSE getTokens(tokenRow)
        manual == tool = "sync_data" /\ full
        type == IF manual THEN "none" ELSE smartSync(syncState, now, tz)
        fetches == StartFetches(tokens, now, WindowDays(type))
        syncs == tokens # <<>> /\ type # "skip"
        started == syncs /\ \A k \in Kinds : fetches[k].pc # "failed"
        error == IF thrown THEN DecryptError
                 ELSE IF syncs /\ ~started THEN EntryError(RequestEntry(tokens, now))
                 ELSE <<>>
        result == IF thrown THEN "error"
                  ELSE IF tokens = <<>> THEN "noauth"
                  ELSE IF started THEN "none"
                  ELSE IF syncs THEN ToolResult(ToolClass(tool), FALSE)
                  ELSE IF tool = "sync_data" THEN "uptodate" ELSE "ok"
    IN  /\ call[s].pc # "syncing"
        /\ ~InFlight(s)
        /\ call[s].n < MaxCalls
        /\ full => tool = "sync_data"
        /\ syncs => MayStartOf(flights)
        /\ held' = IF tokens = <<>> THEN held ELSE tokens
        /\ req' = [req EXCEPT ![s] = IF started THEN fetches ELSE [k \in Kinds |-> IdleFetch]]
        /\ call' = [call EXCEPT ![s] =
                [pc |-> IF started THEN "syncing" ELSE "done",
                 tool |-> ToolClass(tool),
                 type |-> IF tokens = <<>> THEN "none" ELSE type,
                 windows |-> IF syncs THEN <<WindowDays(type)>> ELSE <<>>,
                 days |-> IF syncs THEN WindowDays(type) ELSE 0,
                 at |-> now,
                 error |-> error,
                 result |-> result,
                 text |-> ResultText(result, error),
                 read |-> ResultRead(ToolClass(tool), result, tables),
                 n |-> call[s].n + 1]]
        /\ ev' = Raised(IF thrown THEN "getTokens_threw"
                        ELSE IF tokens = <<>> THEN "noauth"
                        ELSE IF manual THEN "syncDays" ELSE "smartSync", s, error)
        /\ tables' = Queried(ToolClass(tool), result, tables)
        /\ UNCHANGED <<now, tz, syncState, tokenRow, auth>>

CallTool(s, tool, full) == CallToolOf(s, tool, full, MaxFlights)

\* /callback on a code upstream accepts: the pair held and saved, the
\* initial sync started and left to run.  (One initial sync at a time.)
\* offline: the grant carries a refresh token; it is empty otherwise.
Callback(offline) ==
    /\ auth.issued < MaxGrants
    /\ call[0].pc # "syncing"
    /\ ~InFlight(0)
    /\ MayStart
    /\ \E expires_in \in ExpiresIn :
        LET refresh_token == IF offline THEN auth.issued + 1 ELSE NULL
            tokens == [GrantedTokens(auth.issued + 1, expires_in, now) EXCEPT
                            !.refresh_token = refresh_token]
            fetches == StartFetches(<<tokens>>, now, 90)
            started == \A k \in Kinds : fetches[k].pc # "failed"
            error == IF started THEN <<>> ELSE EntryError(RequestEntry(<<tokens>>, now))
        IN  /\ held' = <<tokens>>
            /\ tokenRow' = saveTokens(tokens, now)
            /\ req' = [req EXCEPT ![0] = IF started THEN fetches
                                         ELSE [k \in Kinds |-> IdleFetch]]
            /\ auth' = [auth EXCEPT !.valid = auth.valid \cup ({refresh_token} \ {NULL}),
                                    !.issued = auth.issued + 1]
            /\ call' = [call EXCEPT ![0] =
                    [pc |-> IF started THEN "syncing" ELSE "done", tool |-> "callback",
                     type |-> "none", windows |-> <<90>>, days |-> 90, at |-> now,
                     error |-> error, result |-> "none", text |-> <<>>, read |-> <<>>,
                     n |-> call[0].n]]
            /\ ev' = Raised("callback", 0, error)
    /\ UNCHANGED <<now, tz, tables, syncState>>

\* the handler for get_auth_url and for a name the switch does not know:
\* the authorization URL, or the McpError caught
CallOther(s, tool) ==
    LET error == IF tool = "get_auth_url" THEN <<>> ELSE UnknownTool(tool)
        result == IF error = <<>> THEN "ok" ELSE "error"
    IN  /\ call[s].pc # "syncing"
        /\ ~InFlight(s)
        /\ call[s].n < MaxCalls
        /\ call' = [call EXCEPT ![s] =
                [IdleCall EXCEPT !.pc = "done", !.tool = tool, !.at = now,
                                 !.error = error, !.result = result,
                                 !.text = ResultText(result, error),
                                 !.n = call[s].n + 1]]
        /\ ev' = Raised("other", s, error)
        /\ UNCHANGED <<now, tz, tables, syncState, tokenRow, held, auth, req>>

\* a syncDays that takes the fetch that threw for an empty result and lets
\* the other fetches run on to the upserts
OrphansSettled(fetches, k) == [fetches EXCEPT ![k].pc = "ok", ![k].records = <<>>]

\* the fetches of a sync that has thrown: a GET still in flight changes
\* nothing whatever it brings, a refresh still in flight may yet replace
\* the pair
Orphans(fetches, k) ==
    [j \in Kinds |-> IF j # k /\ fetches[j].pc = "refreshing" THEN fetches[j] ELSE IdleFetch]

\* the handler's answer once its sync has ended, with the error it threw
\* (<<>>: none) and the tables as they are then
Answered(c, error, tabs) ==
    LET result == ToolResult(c.tool, error = <<>>)
    IN  [c EXCEPT !.pc = "done", !.error = error, !.result = result,
                  !.text = ResultText(result, error),
                  !.read = ResultRead(c.tool, result, tabs)]

\* a sync that throws an error of its own making in place of the fetch's
FailedWrapped(c, error, tabs) ==
    IF c.pc = "syncing" THEN Answered(c, <<"Sync failed">>, tabs) ELSE c

\* Promise.all rejects with the error of the first fetch to throw:
\* syncDays throws it, and the handler answers.  A fetch that throws after
\* that changes nothing.
Failed(c, error, tabs) ==
    IF c.pc = "syncing" THEN Answered(c, error, tabs) ELSE c

\* a fetch's refresh grant accepted: the pair replaced and saved, and the
\* fetch goes on to its GET
FetchRefreshOk(s, k) ==
    /\ req[s][k].pc = "refreshing"
    /\ req[s][k].sent \in auth.valid
    /\ auth.issued < MaxGrants
    /\ \E expires_in \in ExpiresIn :
        LET tokens == GrantedTokens(auth.issued + 1, expires_in, now)
        IN  /\ held' = <<tokens>>
            /\ tokenRow' = OnTokenRefresh(tokenRow, tokens, now)
    /\ auth' = [auth EXCEPT !.valid = (auth.valid \ {req[s][k].sent}) \cup {auth.issued + 1},
                            !.issued = auth.issued + 1]
    /\ req' = [req EXCEPT ![s][k].pc = IF call[s].pc = "syncing" THEN "fetching" ELSE "idle",
                          ![s][k].sent = NULL]
    /\ ev' = Event("refreshed", s)
    /\ UNCHANGED <<now, tz, tables, syncState, call>>

\* a fetch's refresh grant rejected: the fetch throws
FetchRefreshRejected(s, k) ==
    /\ req[s][k].pc = "refreshing"
    /\ req' = [req EXCEPT ![s] = Orphans(req[s], k)]
    /\ \E refusal \in Refusals :
        LET failed == Failed(call[s], RefreshError(refusal.body), tables)
        IN  /\ call' = [call EXCEPT ![s] = failed]
            /\ tables' = IF call[s].pc = "syncing"
                         THEN Queried(failed.tool, failed.result, tables) ELSE tables
            /\ ev' = Raised(IF call[s].pc = "syncing" THEN "fetch_failed"
                            ELSE "orphan_failed", s, RefreshError(refusal.body))
    /\ UNCHANGED <<now, tz, syncState, tokenRow, held, auth>>

\* a fetch's GET answered with an error: the fetch throws
FetchFailed(s, k) ==
    /\ req[s][k].pc = "fetching"
    /\ req' = [req EXCEPT ![s] = Orphans(req[s], k)]
    /\ \E refusal \in Refusals :
        LET error == RequestError(refusal.status, refusal.body)
            failed == Failed(call[s], error, tables)
        IN  /\ call' = [call EXCEPT ![s] = failed]
            /\ tables' = IF call[s].pc = "syncing"
                         THEN Queried(failed.tool, failed.result, tables) ELSE tables
            /\ ev' = Raised(IF call[s].pc = "syncing" THEN "fetch_failed"
                            ELSE "orphan_failed", s, error)
    /\ UNCHANGED <<now, tz, syncState, tokenRow, held, auth>>

\* a fetch's GET answered with the records upstream holds.  When it is
\* the last of the four, syncDays goes on without yielding: the upserts in
\* order, then updateSyncState, then the handler's answer with its queries.
FetchOk(s, k) ==
    LET fetched == [req[s] EXCEPT ![k].pc = "ok", ![k].records = auth.data[k]]
        last == \A j \in Kinds : fetched[j].pc = "ok"
        merged == Merge(tables, syncState, [j \in Kinds |-> fetched[j].records],
                        call[s].days, call[s].at, now)
        answered == Answered(call[s], merged.error, merged.tables)
    IN  /\ req[s][k].pc = "fetching"
        /\ IF last
           THEN /\ tables' = Queried(answered.tool, answered.result, merged.tables)
                /\ syncState' = merged.syncState
                /\ req' = [req EXCEPT ![s] = [j \in Kinds |-> IdleFetch]]
                /\ call' = [call EXCEPT ![s] = answered]
                /\ ev' = [Raised(IF merged.ok THEN "merged" ELSE "merge_failed", s,
                                 merged.error) EXCEPT !.stats = merged.stats]
           ELSE /\ req' = [req EXCEPT ![s] = fetched]
                /\ ev' = Event("fetched", s)
                /\ UNCHANGED <<tables, syncState, call>>
        /\ UNCHANGED <<now, tz, tokenRow, held, auth>>

\* time passes
Tick ==
    /\ \E t \in Instants :
        /\ t > now
        /\ now' = t
    /\ ev' = Event("tick", 0)
    /\ UNCHANGED <<tz, tables, syncState, tokenRow, held, auth, req, call>>

Next ==
    \/ \E s \in Sessions, tool \in DataTools \cup {"sync_data"}, full \in BOOLEAN :
            CallTool(s, tool, full)
    \/ Callback(TRUE)
    \/ \E s \in Syncs, k \in Kinds : FetchRefreshOk(s, k)
    \/ \E s \in Syncs, k \in Kinds : FetchRefreshRejected(s, k)
    \/ \E s \in Syncs, k \in Kinds : FetchFailed(s, k)
    \/ \E s \in Syncs, k \in Kinds : FetchOk(s, k)
    \/ Tick

Spec == Init /\ [][Next]_vars

-----------------------------------------------------------------------------
(* The days argument of the trend tools (index.ts).  A JavaScript number   *)
(* is finite, NaN, Infinity or -Infinity; a finite one is counted in       *)
(* units of 1/Unit.  A string is the sequence of its characters.           *)

Unit == 2
MaxLen == 3
MaxDays == 92

Finite(n) == [k |-> "finite", n |-> n]
NaN == [k |-> "NaN", n |-> 0]
Infinity == [k |-> "Infinity", n |-> 0]
MinusInfinity == [k |-> "-Infinity", n |-> 0]

\* the values of typedArgs.days
Undefined == [t |-> "undefined", num |-> NaN, s |-> <<>>]
Null == [t |-> "null", num |-> NaN, s |-> <<>>]
Num(num) == [t |-> "number", num |-> num, s |-> <<>>]
Str(s) == [t |-> "string", num |-> NaN, s |-> s]
Bool(b) == [t |-> "boolean", num |-> NaN, s |-> IF b THEN <<"true">> ELSE <<"false">>]

Digits == {"0", "1", "9"}
Chars == Digits \cup {" ", "-", "+", ".", "x"}

Strings == UNION {[1..n -> Chars] : n \in 0..MaxLen}

Numbers ==
    {Finite(n) : n \in (0 - 2 * Unit)..(MaxDays * Unit)} \cup {NaN, Infinity, MinusInfinity}

DaysArguments ==
    {Undefined, Null} \cup {Num(num) : num \in Numbers}
        \cup {Str(s) : s \in Strings} \cup {Bool(b) : b \in BOOLEAN}

DigitValue(c) == CASE c = "0" -> 0 [] c = "1" -> 1 [] c = "9" -> 9

\* String(value), for a value that is not a number
StringOf(value) == value.s

\* the string less its leading white space
RECURSIVE TrimStart(_)
TrimStart(s) == IF s # <<>> /\ Head(s) = " " THEN TrimStart(Tail(s)) ELSE s

\* the decimal digits the string begins with
RECURSIVE LeadingDigits(_)
LeadingDigits(s) ==
    IF s # <<>> /\ Head(s) \in Digits THEN <<Head(s)>> \o LeadingDigits(Tail(s)) ELSE <<>>

\* the integer a sequence of decimal digits writes
RECURSIVE DecimalValue(_)
DecimalValue(d) ==
    IF d = <<>> THEN 0
    ELSE 10 * DecimalValue(SubSeq(d, 1, Len(d) - 1)) + DigitValue(d[Len(d)])

\* Number.parseInt(string, 10): white space skipped, a sign taken, then
\* the digits up to the first character that is not one; NaN without any
parseInt(s) ==
    LET trimmed == TrimStart(s)
        signed == trimmed # <<>> /\ Head(trimmed) \in {"-", "+"}
        digits == LeadingDigits(IF signed THEN Tail(trimmed) ELSE trimmed)
    IN  IF digits = <<>> THEN NaN
        ELSE Finite((IF signed /\ Head(trimmed) = "-" THEN 0 - 1 ELSE 1)
                        * DecimalValue(digits) * Unit)

\* num < days, Number.isNaN(num), Math.min(num, days) for a whole days
LessThan(num, days) ==
    CASE num.k = "finite" -> num.n < days * Unit
      [] num.k = "-Infinity" -> TRUE
      [] OTHER -> FALSE

isNaN(num) == num.k = "NaN"

MathMin(num, days) ==
    CASE num.k = "NaN" -> NaN
      [] LessThan(num, days) -> num
      [] OTHER -> Finite(days * Unit)

\* Math.min(days || 14, 90), as the handler once had it
validateDaysUnchecked(value) ==
    LET num == IF value.t = "number" THEN value.num ELSE parseInt(StringOf(value))
    IN  IF value.t \in {"undefined", "null"} \/ isNaN(num) \/ num = Finite(0)
        THEN Finite(14 * Unit)
        ELSE MathMin(num, 90)

validateDays(value) ==
    IF value.t \in {"undefined", "null"} THEN Finite(14 * Unit)
    ELSE LET num == IF value.t = "number" THEN value.num ELSE parseInt(StringOf(value))
         IN  IF isNaN(num) \/ LessThan(num, 1) THEN Finite(14 * Unit)
             ELSE MathMin(num, 90)

TrendTools == {"get_recovery_trends", "get_sleep_analysis", "get_strain_history"}

\* a session about to call a trend tool with some days argument, over a
\* store with a saved pair, synced within the hour.  ev: the tool called,
\* its argument, and the days bound to the Store's query
DaysInit ==
    /\ now = Epoch
    /\ tz = 0
    /\ tokenRow = saveTokens(GrantedTokens(1, Hour, Epoch), Epoch)
    /\ held = getTokens(tokenRow)
    /\ tables = EarlierStore(Epoch - Hour + Second).tables
    /\ syncState = EarlierStore(Epoch - Hour + Second).syncState
    /\ auth = [valid |-> {1}, issued |-> 1]
    /\ req = <<>>
    /\ call = <<>>
    /\ \E value \in DaysArguments : ev = [op |-> "none", value |-> value, days |-> <<>>]

\* case 'get_recovery_trends' / 'get_sleep_analysis' / 'get_strain_history'
\* once smartSync has answered 'skip': validateDays(typedArgs.days), and
\* the value bound to the query
TrendTool(tool) ==
    /\ smartSync(syncState, now, tz) = "skip"
    /\ ev' = [op |-> tool, value |-> ev.value, days |-> <<validateDays(ev.value)>>]
    /\ UNCHANGED <<now, tz, tables, syncState, tokenRow, held, auth, req, call>>

DaysNext == \E tool \in TrendTools : TrendTool(tool)

SpecDays == DaysInit /\ [][DaysNext]_vars

-----------------------------------------------------------------------------
(* The trend queries (database.ts).  A timestamp column holds upstream's   *)
(* ISO-8601 UTC text, a date is a day number.                               *)

\* DATE('now', '-' || days || ' days'): the UTC date of the instant that
\* many days before t; days is a number counted in 1/Unit
DateDaysBefore(t, days) == IsoDate(t - (days.n * Day) \div Unit)

\* timestamp >= date as texts: 'YYYY-MM-DDTHH:MM:SS.sssZ' against
\* 'YYYY-MM-DD', the longer text being the greater on an equal prefix
NotBeforeDate(timestamp, date) == IsoDate(timestamp) >= date

\* ORDER BY column DESC
RECURSIVE OrderByDesc(_, _)
OrderByDesc(rows, column) ==
    IF rows = {} THEN <<>>
    ELSE LET first == CHOOSE r \in rows : \A q \in rows : q[column] <= r[column]
         IN  <<first>> \o OrderByDesc(rows \ {first}, column)

\* ROUND((total_in_bed_milli - total_awake_milli) / 3600000.0, 2), in
\* hundredths of an hour; NULL when either column is
SleepHours(row) ==
    IF row.total_in_bed_milli = NULL \/ row.total_awake_milli = NULL THEN NULL
    ELSE (row.total_in_bed_milli - row.total_awake_milli + 18000) \div 36000

\* ROUND(kilojoule / 4.184, 0); NULL when kilojoule is
Calories(row) ==
    IF row.kilojoule = NULL THEN NULL ELSE (row.kilojoule * 1000 + 2092) \div 4184

\* the rows the WHERE clauses keep
RecoveryTrendRows(table, days, t) ==
    {r \in table : /\ r.recovery_score # NULL
                   /\ NotBeforeDate(r.created_at, DateDaysBefore(t, days))}

SleepTrendRows(table, days, t) ==
    {r \in table : /\ r.is_nap = 0
                   /\ r.sleep_performance # NULL
                   /\ NotBeforeDate(r.start_time, DateDaysBefore(t, days))}

StrainTrendRows(table, days, t) ==
    {r \in table : /\ r.strain # NULL
                   /\ NotBeforeDate(r.start_time, DateDaysBefore(t, days))}

getRecoveryTrends(table, days, t) ==
    LET rows == OrderByDesc(RecoveryTrendRows(table, days, t), "created_at")
    IN  [i \in 1..Len(rows) |->
            [date |-> IsoDate(rows[i].created_at),
             recovery_score |-> rows[i].recovery_score,
             hrv |-> rows[i].hrv_rmssd, rhr |-> rows[i].resting_hr]]

getSleepTrends(table, days, t) ==
    LET rows == OrderByDesc(SleepTrendRows(table, days, t), "start_time")
    IN  [i \in 1..Len(rows) |->
            [date |-> IsoDate(rows[i].start_time),
             total_sleep_hours |-> SleepHours(rows[i]),
             performance |-> rows[i].sleep_performance,
             efficiency |-> rows[i].sleep_efficiency]]

getStrainTrends(table, days, t) ==
    LET rows == OrderByDesc(StrainTrendRows(table, days, t), "start_time")
    IN  [i \in 1..Len(rows) |->
            [date |-> IsoDate(rows[i].start_time), strain |-> rows[i].strain,
             calories |-> Calories(rows[i])]]

\* the table a trend tool reads, the rows its WHERE keeps, its answer
TrendKind(tool) ==
    CASE tool = "get_recovery_trends" -> "recovery"
      [] tool = "get_sleep_analysis" -> "sleep"
      [] tool = "get_strain_history" -> "cycles"

TrendRows(tool, tabs, days, t) ==
    CASE tool = "get_recovery_trends" -> RecoveryTrendRows(tabs["recovery"], days, t)
      [] tool = "get_sleep_analysis" -> SleepTrendRows(tabs["sleep"], days, t)
      [] tool = "get_strain_history" -> StrainTrendRows(tabs["cycles"], days, t)

Trends(tool, tabs, days, t) ==
    CASE tool = "get_recovery_trends" -> getRecoveryTrends(tabs["recovery"], days, t)
      [] tool = "get_sleep_analysis" -> getSleepTrends(tabs["sleep"], days, t)
      [] tool = "get_strain_history" -> getStrainTrends(tabs["cycles"], days, t)

MaxTrendDays == 3

\* the days validateDays can hand over, up to MaxTrendDays
TrendDays == {Finite(n) : n \in (1 * Unit)..(MaxTrendDays * Unit)}

\* the instants a trend tool is called at: midnight UTC, a second later,
\* noon
TrendInstants == {Epoch, Epoch + Second, Epoch + 12 * Hour}

\* a store one of whose tables a sync has filled, at some time of day.  ev: the tool called, the days bound, the rows kept and the answer
TrendsInit ==
    /\ now \in TrendInstants
    /\ tz = 0
    /\ tokenRow = saveTokens(GrantedTokens(1, Hour, Epoch), Epoch)
    /\ held = getTokens(tokenRow)
    /\ \E kind \in Kinds :
        \E table \in EarlierStores(kind) : tables = [EmptyTables EXCEPT ![kind] = table]
    /\ syncState = EarlierStore(Epoch - Second).syncState
    /\ auth = [valid |-> {1}, issued |-> 1]
    /\ req = <<>>
    /\ call = <<>>
    /\ ev = [op |-> "none", days |-> Finite(0), kept |-> {}, rows |-> <<>>]

\* a trend tool's query, run when the handler's smartSync has ended
TrendQuery(tool, days) ==
    /\ ev' = [op |-> tool, days |-> days,
              kept |-> TrendRows(tool, tables, days, now),
              rows |-> Trends(tool, tables, days, now)]
    /\ UNCHANGED <<now, tz, tables, syncState, tokenRow, held, auth, req, call>>

TrendsNext == \E tool \in TrendTools, days \in TrendDays : TrendQuery(tool, days)

SpecTrends == TrendsInit /\ [][TrendsNext]_vars

-----------------------------------------------------------------------------
(* The getAll loops on their own (whoop-client.ts): one call of one of    *)
(* the four, page by page.  Here auth.data[kind] is the sequence of pages *)
(* upstream holds for a collection (auth.last: what the next_token of a   *)
(* last page is), call is the loop (where it is, its    *)
(* params, nextToken and results, and what it returned), req is the       *)
(* sequence of the queries it has sent and ev is the last step.           *)

MaxPages == 3
MaxPageRecords == 2
MaxPageId == 2

\* limit: 25
Limit == 25

\* '/v2/cycle', '/v2/recovery', '/v2/activity/sleep', '/v2/activity/workout'
Path(kind) ==
    CASE kind = "cycles" -> "/v2/cycle"
      [] kind = "recovery" -> "/v2/recovery"
      [] kind = "sleep" -> "/v2/activity/sleep"
      [] kind = "workouts" -> "/v2/activity/workout"

\* the collection upstream serves at a path
Collection(path) == CHOOSE kind \in Kinds : Path(kind) = path

\* the pages a collection can be served in: records are the ids of the
\* records, in the order upstream returns them
PageSet ==
    UNION {[1..n -> 1..MaxPageId] : n \in 0..MaxPageRecords}

PagesSet == UNION {[1..n -> PageSet] : n \in 1..MaxPages}

\* the collection a behaviour does not vary
OnePage == <<<<MaxPageId>>>>

\* the empty string as a token; NULL is a token that is absent
EmptyToken == 0

\* a test that takes the empty string for a token
TruthyUnlessAbsent(token) == token # NULL

\* while (nextToken), if (params?.nextToken): neither absent nor empty
Truthy(token) == token # NULL /\ token # EmptyToken

\* getCycles / getRecoveries / getSleeps / getWorkouts: the query they
\* pass to request(): start, end, limit and nextToken, each only when set
Query(kind, params, nextToken) ==
    [path |-> Path(kind), start |-> params.start, end |-> params.end,
     limit |-> Limit, nextToken |-> IF Truthy(nextToken) THEN nextToken ELSE NULL]

\* upstream's answer to a query: the first page without a nextToken, the
\* page after the one that gave the token otherwise; next_token is the
\* number of the page served while pages remain, and on the last page it
\* is what this upstream ends a collection with (last): absent or empty
Page(upstream, query) ==
    LET pages == upstream.data[Collection(query.path)]
        index == IF query.nextToken = NULL THEN 1 ELSE query.nextToken + 1
    IN  [records |-> pages[index],
         next_token |-> IF index < Len(pages) THEN index ELSE upstream.last]

\* results that keep only the last page
Replaced(results, records) == records

\* results.push(...response.records)
Pushed(results, records) == results \o records

\* a loop that asks for the first page again
NextFirst(response) == NULL

\* nextToken = response.next_token
NextToken(response) == response.next_token

IdleLoop ==
    [pc |-> "idle", kind |-> "cycles", params |-> [start |-> NULL, end |-> NULL],
     nextToken |-> NULL, results |-> <<>>, out |-> <<>>]

\* the start and end syncDays passes: the window's two ends
PageParams ==
    {[start |-> Epoch - days * Day, end |-> Epoch] : days \in {1, 7}}

PagesInit ==
    /\ now = Epoch
    /\ tz = 0
    /\ tables = EmptyTables
    /\ syncState = EmptySyncState
    /\ tokenRow = saveTokens(GrantedTokens(1, Hour, Epoch), Epoch)
    /\ held = getTokens(tokenRow)
    /\ \E kind \in Kinds : \E pages \in PagesSet : \E last \in {NULL, EmptyToken} :
            auth = [valid |-> {1}, issued |-> 1, last |-> last,
                    data |-> [k \in Kinds |-> IF k = kind THEN pages ELSE OnePage]]
    /\ req = <<>>
    /\ call = IdleLoop
    /\ ev = [op |-> "none"]

\* getAllX(params) up to the first await: the first query, with no
\* nextToken
GetAll(kind, params) ==
    /\ call.pc = "idle"
    /\ call' = [call EXCEPT !.pc = "awaiting", !.kind = kind, !.params = params]
    /\ req' = <<Query(kind, params, NULL)>>
    /\ ev' = [op |-> "getAll"]
    /\ UNCHANGED <<now, tz, tables, syncState, tokenRow, held, auth>>

\* a page arrives: push its records, take its next_token, and either go
\* round the loop with the next query or return the results
PageArrives ==
    /\ call.pc = "awaiting"
    /\ LET response == Page(auth, req[Len(req)])
           results == Pushed(call.results, response.records)
           nextToken == NextToken(response)
       IN  IF Truthy(nextToken)
           THEN /\ call' = [call EXCEPT !.nextToken = nextToken, !.results = results]
                /\ req' = Append(req, Query(call.kind, call.params, nextToken))
                /\ ev' = [op |-> "page"]
           ELSE /\ call' = [call EXCEPT !.pc = "returned", !.nextToken = nextToken,
                                        !.results = results, !.out = <<results>>]
                /\ req' = req
                /\ ev' = [op |-> "returned"]
    /\ UNCHANGED <<now, tz, tables, syncState, tokenRow, held, auth>>

\* request() throws on a response that is not ok, and the loop with it
PageFails ==
    /\ call.pc = "awaiting"
    /\ call' = [call EXCEPT !.pc = "threw"]
    /\ ev' = [op |-> "threw"]
    /\ UNCHANGED <<now, tz, tables, syncState, tokenRow, held, auth, req>>

PagesNext ==
    \/ \E kind \in Kinds, params \in PageParams : GetAll(kind, params)
    \/ PageArrives
    \/ PageFails

SpecPages == PagesInit /\ [][PagesNext]_vars

\* every request() a loop awaits settles: its response arrives, or fetch
\* or request() throws
SpecPagesLive == SpecPages /\ WF_vars(PageArrives) /\ WF_vars(PageFails)

-----------------------------------------------------------------------------
(* The session map on its own (index.ts): /mcp requests that open, use    *)
(* and close sessions while the interval timer runs the sweep.  Here call *)
(* is the map transports (session id to lastAccess), req is what lies     *)
(* outside it: the instant the timer next fires (timer), the ids handed   *)
(* out so far (made) and the transports closed so far (closed); ev is the *)
(* last step with the map before it and the sessions it removed.  Time    *)
(* stops at the instants a sweep is due until the sweep has run, and is   *)
(* observed at a sweep instant, one tick after it and one tick before     *)
(* the next.                                                              *)

MaxPeriods == 9
MaxIds == 2

SESSION_TTL_MS == 30 * Minute

\* setInterval(cleanupStaleSessions, 5 * 60 * 1000)
SweepPeriod == 5 * Minute

SessionIds == 1..MaxIds

Horizon == Epoch + MaxPeriods * SweepPeriod

\* a session stale from the TTL on
StaleAtTtl(session, t) == t - session.lastAccess >= SESSION_TTL_MS

\* a session the sweep spares until it has idled for two TTLs
StaleAfterTwice(session, t) == t - session.lastAccess > 2 * SESSION_TTL_MS

\* now - session.lastAccess > SESSION_TTL_MS
Stale(session, t) == t - session.lastAccess > SESSION_TTL_MS

\* the map without some of its sessions
Without(map, ids) == [id \in DOMAIN map \ ids |-> map[id]]

\* the map with a session set
WithSession(map, id, session) ==
    [i \in DOMAIN map \cup {id} |-> IF i = id THEN session ELSE map[i]]

SessionEvent(op, removed) == [op |-> op, before |-> call, removed |-> removed]

SessionsInit ==
    /\ now = Epoch
    /\ tz = 0
    /\ tables = EmptyTables
    /\ syncState = EmptySyncState
    /\ tokenRow = <<>>
    /\ held = <<>>
    /\ auth = [valid |-> {}, issued |-> 0]
    /\ req = [timer |-> Epoch + SweepPeriod, made |-> 0, closed |-> {}]
    /\ call = <<>>
    /\ ev = SessionEvent("none", {})

\* POST /mcp without a known session id: a transport with a fresh id,
\* set in the map by onsessioninitialized
Initialize ==
    /\ req.made < MaxIds
    /\ call' = WithSession(call, req.made + 1, [lastAccess |-> now])
    /\ req' = [req EXCEPT !.made = req.made + 1]
    /\ ev' = SessionEvent("initialize", {})
    /\ UNCHANGED <<now, tz, tables, syncState, tokenRow, held, auth>>

\* GET or POST /mcp with the id of a session in the map
Access(id) ==
    /\ id \in DOMAIN call
    /\ call' = [call EXCEPT ![id] = [lastAccess |-> now]]
    /\ ev' = SessionEvent("access", {})
    /\ UNCHANGED <<now, tz, tables, syncState, tokenRow, held, auth, req>>

\* DELETE /mcp with the id of a session in the map
Delete(id) ==
    /\ id \in DOMAIN call
    /\ call' = Without(call, {id})
    /\ req' = [req EXCEPT !.closed = req.closed \cup {id}]
    /\ ev' = SessionEvent("delete", {id})
    /\ UNCHANGED <<now, tz, tables, syncState, tokenRow, held, auth>>

\* cleanupStaleSessions, when the interval timer fires
CleanupStaleSessions ==
    /\ now = req.timer
    /\ LET stale == {id \in DOMAIN call : Stale(call[id], now)}
       IN  /\ call' = Without(call, stale)
           /\ req' = [req EXCEPT !.timer = now + SweepPeriod,
                                 !.closed = req.closed \cup stale]
           /\ ev' = SessionEvent("cleanup", stale)
    /\ UNCHANGED <<now, tz, tables, syncState, tokenRow, held, auth>>

\* time passes, up to the instant the timer fires
SessionTick ==
    /\ \E t \in {req.timer - SweepPeriod + 1, req.timer - 1, req.timer} :
            /\ t > now
            /\ t <= req.timer
            /\ t <= Horizon
            /\ now' = t
    /\ ev' = SessionEvent("tick", {})
    /\ UNCHANGED <<tz, tables, syncState, tokenRow, held, auth, req, call>>

SessionsNext ==
    \/ Initialize
    \/ \E id \in SessionIds : Access(id)
    \/ \E id \in SessionIds : Delete(id)
    \/ CleanupStaleSessions
    \/ SessionTick

SpecSessions == SessionsInit /\ [][SessionsNext]_vars

-----------------------------------------------------------------------------
(* Two sessions whose data tools run smartSync at once: each handler      *)
(* reads sync-state when it is called, and the fetches of the two syncs   *)
(* answer in any order while seconds pass.  The held pair stays outside   *)
(* the refresh margin throughout.                                         *)

MaxRacers == 2
MaxSeconds == 2

Racers == 1..MaxRacers

RaceInstants == {Epoch + n * Second : n \in 0..MaxSeconds}

RaceInit ==
    /\ now = Epoch
    /\ tz = 0
    /\ tokenRow = saveTokens(GrantedTokens(1, Hour, Epoch), Epoch)
    /\ \E t \in {NULL} \cup EarlierSyncs :
        /\ tables = EarlierStore(t).tables
        /\ syncState = EarlierStore(t).syncState
    /\ held = getTokens(tokenRow)
    /\ \E world \in Worlds : auth = [valid |-> {1}, issued |-> 1, data |-> world]
    /\ req = [s \in Racers |-> [k \in Kinds |-> IdleFetch]]
    /\ call = [s \in Racers |-> IdleCall]
    /\ ev = [op |-> "none", s |-> 0, error |-> <<>>, stats |-> <<>>,
             before |-> [tables |-> tables, syncState |-> syncState, tokenRow |-> tokenRow]]

\* seconds pass
RaceTick ==
    /\ \E t \in RaceInstants :
        /\ t > now
        /\ now' = t
    /\ ev' = Event("tick", 0)
    /\ UNCHANGED <<tz, tables, syncState, tokenRow, held, auth, req, call>>

RaceNext ==
    \/ \E s \in Racers, tool \in DataTools : CallToolOf(s, tool, FALSE, MaxRacers)
    \/ \E s \in Racers, k \in Kinds : FetchFailed(s, k)
    \/ \E s \in Racers, k \in Kinds : FetchOk(s, k)
    \/ RaceTick

SpecRace == RaceInit /\ [][RaceNext]_vars

-----------------------------------------------------------------------------
(* The handlers with every tool name and with grants that may lack a       *)
(* refresh token, in the zone of UTC, over an upstream whose recovery       *)
(* payload may lack user_id.                                                 *)

HandlersInit ==
    /\ Init
    /\ tz = 0
    /\ auth.data["recovery"] # <<>>
    /\ auth.data["cycles"] = <<Record("cycles", 1, UserId, TRUE)>>

HandlersNext ==
    \/ \E s \in Sessions, tool \in DataTools \cup {"sync_data"}, full \in BOOLEAN :
            CallTool(s, tool, full)
    \/ \E s \in Sessions, tool \in OtherTools : CallOther(s, tool)
    \/ \E offline \in BOOLEAN : Callback(offline)
    \/ \E s \in Syncs, k \in Kinds : FetchRefreshOk(s, k)
    \/ \E s \in Syncs, k \in Kinds : FetchRefreshRejected(s, k)
    \/ \E s \in Syncs, k \in Kinds : FetchFailed(s, k)
    \/ \E s \in Syncs, k \in Kinds : FetchOk(s, k)
    \/ Tick

SpecHandlers == HandlersInit /\ [][HandlersNext]_vars

-----------------------------------------------------------------------------
(* sync_data with any full argument (index.ts), in the zone of UTC, over a *)
(* store with a saved pair.  auth.full is the value of typedArgs.full the  *)
(* client passes.                                                          *)

TrueText == <<"t", "r", "u", "e">>
TrueTextUpper == <<"T", "R", "U", "E">>
FalseText == <<"f", "a", "l", "s", "e">>

\* the values of typedArgs.full
FullArguments ==
    {Undefined, Null, Bool(TRUE), Bool(FALSE), Num(Finite(0)), Num(Finite(Unit)),
     Str(<<>>), Str(TrueText), Str(TrueTextUpper), Str(FalseText), Str(<<"1">>)}

\* if (typedArgs.full): what JavaScript takes for true
validateBooleanTruthy(value) ==
    CASE value.t = "boolean" -> value = Bool(TRUE)
      [] value.t = "string" -> value.s # <<>>
      [] value.t = "number" -> value.num \notin {NaN, Finite(0)}
      [] OTHER -> FALSE

\* validateBoolean: a boolean as it is, the string 'true' as true, false
\* for everything else
validateBoolean(value) ==
    IF value.t = "boolean" THEN value = Bool(TRUE)
    ELSE IF value = Str(TrueText) THEN TRUE
    ELSE FALSE

FullInit ==
    /\ now = Epoch
    /\ tz = 0
    /\ tokenRow = saveTokens(GrantedTokens(1, Hour, Epoch), Epoch)
    /\ \E t \in {NULL} \cup EarlierSyncs :
        /\ tables = EarlierStore(t).tables
        /\ syncState = EarlierStore(t).syncState
    /\ held = getTokens(tokenRow)
    /\ \E world \in Worlds, value \in FullArguments :
        auth = [valid |-> {1}, issued |-> 1, data |-> world, full |-> value]
    /\ req = [s \in Syncs |-> [k \in Kinds |-> IdleFetch]]
    /\ call = [s \in Syncs |-> IdleCall]
    /\ ev = [op |-> "none", s |-> 0, error |-> <<>>, stats |-> <<>>,
             before |-> [tables |-> tables, syncState |-> syncState, tokenRow |-> tokenRow]]

\* case 'sync_data' with the client's full argument
SyncData(s) == CallTool(s, "sync_data", validateBoolean(auth.full))

FullNext ==
    \/ \E s \in Sessions : SyncData(s)
    \/ \E s \in Syncs, k \in Kinds : FetchRefreshOk(s, k)
    \/ \E s \in Syncs, k \in Kinds : FetchRefreshRejected(s, k)
    \/ \E s \in Syncs, k \in Kinds : FetchFailed(s, k)
    \/ \E s \in Syncs, k \in Kinds : FetchOk(s, k)
    \/ Tick

SpecFull == FullInit /\ [][FullNext]_vars

-----------------------------------------------------------------------------
(* updateSyncState on its own: calls with any dates, one after another,    *)
(* on the row initSchema inserts.  ev keeps the dates passed so far.       *)

MaxDate == 3
MaxUpdates == 3

\* the ISO dates passed, as day numbers
Dates == 0..MaxDate

SsInit ==
    /\ now = Epoch
    /\ tz = 0
    /\ tables = EmptyTables
    /\ syncState = EmptySyncState
    /\ tokenRow = <<>>
    /\ held = <<>>
    /\ auth = [valid |-> {}, issued |-> 0]
    /\ req = <<>>
    /\ call = <<>>
    /\ ev = [n |-> 0, oldests |-> {}, newests |-> {}, oldest |-> NULL, newest |-> NULL,
             before |-> EmptySyncState]

\* db.updateSyncState(oldestDate, newestDate)
SsUpdate ==
    /\ ev.n < MaxUpdates
    /\ \E oldestDate \in Dates, newestDate \in Dates :
        /\ syncState' = updateSyncState(syncState, oldestDate, newestDate, now)
        /\ ev' = [n |-> ev.n + 1,
                  oldests |-> ev.oldests \cup {oldestDate},
                  newests |-> ev.newests \cup {newestDate},
                  oldest |-> oldestDate, newest |-> newestDate,
                  before |-> syncState]
    /\ UNCHANGED <<now, tz, tables, tokenRow, held, auth, req, call>>

\* time passes between calls
SsTick ==
    /\ now < Epoch + Second
    /\ now' = now + Second
    /\ UNCHANGED <<tz, tables, syncState, tokenRow, held, auth, req, call, ev>>

SsNext == SsUpdate \/ SsTick

SpecSyncState == SsInit /\ [][SsNext]_vars

-----------------------------------------------------------------------------
(* Claims on the upsert methods, under SpecStore *)

Keys(table) == {x.id : x \in table}

BatchKeys == {KeyOf(ev.kind, ev.batch[i]) : i \in 1..Len(ev.batch)}

\* a table's rows with the synced_at column left out
Data(table) == {[x EXCEPT !.synced_at = NULL] : x \in table}

\* the batch holds a record whose write fails
BatchFails == \E i \in 1..Len(ev.batch) : RunFails(ev.kind, RowOf(ev.kind, ev.batch[i], 0))

\* record i is the last of the batch with its primary key
LastOfKey(i) ==
    \A j \in (i + 1)..Len(ev.batch) :
        KeyOf(ev.kind, ev.batch[j]) # KeyOf(ev.kind, ev.batch[i])

\* C7, as stated: applying the same batch a second time leaves the stored
\* rows identical to those the first application left.
C7_SecondApplicationIdentical == ev.n >= 2 => tables[ev.kind] = ev.before

\* C7, amended: a second application of the same batch leaves the same
\* rows in every column but synced_at: no row is added or lost, the rows
\* outside the batch are untouched, and the table is identical in synced_at
\* too when both applications fall in the same second.
C7_SecondApplicationSameData ==
    ev.n >= 2 =>
        /\ Data(tables[ev.kind]) = Data(ev.before)
        /\ Cardinality(tables[ev.kind]) = Cardinality(ev.before)
        /\ \A x \in ev.before : x.id \notin BatchKeys => x \in tables[ev.kind]
        /\ CurrentTimestamp(ev.at) = CurrentTimestamp(ev.prevAt)
                => tables[ev.kind] = ev.before

\* C7's case: a non-empty batch applied twice, a second apart, to a store
\* that also holds a row the batch does not touch
C7_Witness ==
    /\ ev.n >= 2
    /\ ~ev.threw
    /\ ev.batch # <<>>
    /\ CurrentTimestamp(ev.at) # CurrentTimestamp(ev.prevAt)
    /\ \E x \in tables[ev.kind] : x.id \notin BatchKeys

\* C8: when the write of any record of the batch fails, the call throws
\* and the table is exactly as before the call.
C8_AllOrNothing ==
    (ev.n >= 1 /\ BatchFails) => (ev.threw /\ tables[ev.kind] = ev.before)

\* C8's case: a batch whose first record is written (a key the table did
\* not hold) and whose second record fails
C8_Witness ==
    /\ ev.n >= 1
    /\ ev.threw
    /\ Len(ev.batch) = 2
    /\ ~RunFails(ev.kind, RowOf(ev.kind, ev.batch[1], 0))
    /\ RunFails(ev.kind, RowOf(ev.kind, ev.batch[2], 0))
    /\ KeyOf(ev.kind, ev.batch[1]) \notin Keys(ev.before)

\* C9: no table ever holds two rows with one primary key, and after an
\* upsert the row of each key of the batch is the row of the last record
\* with that key, column for column: a record with no score leaves every
\* score column NULL, whatever the row it replaced held.
C9_OneRowPerKeyLastWriteWins ==
    /\ \A k \in Kinds : \A x, y \in tables[k] : x.id = y.id => x = y
    /\ (ev.n >= 1 /\ ~ev.threw) =>
            \A i \in 1..Len(ev.batch) : LastOfKey(i) =>
                \A x \in tables[ev.kind] : x.id = KeyOf(ev.kind, ev.batch[i]) =>
                    /\ x = RowOf(ev.kind, ev.batch[i], CurrentTimestamp(ev.at))
                    /\ ev.batch[i].score = <<>> =>
                            \A c \in ScoreColumns(ev.kind) : x[c] = NULL
    /\ (ev.n >= 1 /\ ~ev.threw) => BatchKeys \subseteq Keys(tables[ev.kind])

\* C9's case: a record with no score replaces a row that held a score
C9_Witness ==
    /\ ev.n >= 1
    /\ ~ev.threw
    /\ \E i \in 1..Len(ev.batch) :
        /\ LastOfKey(i)
        /\ ev.batch[i].score = <<>>
        /\ \E x \in ev.before :
            /\ x.id = KeyOf(ev.kind, ev.batch[i])
            /\ \E c \in ScoreColumns(ev.kind) : x[c] # NULL

-----------------------------------------------------------------------------
(* Claims about the Gateway, under SpecGateway.                            *)

C4_RefreshIffInsideMargin ==
    ev.op \in {"get", "post_grant", "no_refresh_token"} =>
        /\ held # <<>>
        /\ ev.op \in {"post_grant", "no_refresh_token"}
              <=> held[1].expires_at - now < 5 * Minute
        /\ ev.op = "post_grant" =>
              req[ev.r].pc = "refreshing" /\ req[ev.r].sent = held[1].refresh_token
        /\ ev.op = "get" => req[ev.r].pc = "fetching" /\ req[ev.r].sent = NULL

\* C4 witness: a request made with exactly five minutes left has gone to
\* its GET.
C4_Witness ==
    /\ ev.op = "get"
    /\ held[1].expires_at - now = 5 * Minute
    /\ req[ev.r].pc = "fetching"

\* C5: when the refresh fails, by the endpoint's rejection or for want of a
\* refresh token, the request has thrown, has issued no GET, and the held
\* pair and the stored row are what they were.
C5_FailedRefreshAborts ==
    ev.op \in {"refresh_rejected", "no_refresh_token"} =>
        /\ req[ev.r].pc = "threw"
        /\ req[ev.r].bearer = NULL
        /\ held = ev.heldBefore
        /\ tokenRow = ev.rowBefore

\* C5 witness: the token endpoint has rejected a request's grant.
C5_Witness ==
    /\ ev.op = "refresh_rejected"
    /\ req[ev.r].expiring
    /\ req[ev.r].sent # NULL

\* C6: when refreshTokens has returned, the held pair is a new one, the
\* stored row reads back as that pair, and the request has not issued its
\* GET yet; the GET it then issues bears the pair the row holds.
C6_RefreshPersistedBeforeGet ==
    /\ \A r \in Callers : req[r].pc = "refreshed" =>
          /\ ev.op = "refreshed" /\ ev.r = r
          /\ held # ev.heldBefore
          /\ getTokens(tokenRow) = held
          /\ req[r].bearer = NULL
    /\ ev.op = "get_after_refresh" =>
          /\ getTokens(tokenRow) = held
          /\ req[ev.r].bearer = held[1].access_token

\* C6 witness: a refresh has returned with the row rewritten and the GET
\* still to come.
C6_Witness ==
    \E r \in Callers :
        /\ req[r].pc = "refreshed"
        /\ tokenRow # ev.rowBefore
        /\ held # ev.heldBefore

-----------------------------------------------------------------------------
(* Claims about the Sync Engine and the handlers, under Spec.              *)

\* smartSync has just decided, for the session ev.s
Decided == ev.op = "smartSync"

\* the time since the instant last_sync_at names
SinceLastSync == now - UtcInstant(syncState.last_sync_at)

\* C1, as stated: smartSync returns 'full' exactly when last_sync_at is
\* absent, 'quick' exactly when it is present and an hour or more old (an
\* hour exactly included), 'skip' exactly when it is less than an hour old.
C1_DecisionTable ==
    Decided =>
        /\ call[ev.s].type \in {"full", "quick", "skip"}
        /\ call[ev.s].type = "full" <=> syncState.last_sync_at = NULL
        /\ call[ev.s].type = "quick" <=>
              syncState.last_sync_at # NULL /\ SinceLastSync >= Hour
        /\ call[ev.s].type = "skip" <=>
              syncState.last_sync_at # NULL /\ SinceLastSync < Hour

\* C1 witness: smartSync has decided on a last_sync_at exactly an hour old.
C1_Witness ==
    /\ Decided
    /\ syncState.last_sync_at # NULL
    /\ SinceLastSync = Hour

\* C2, as stated: smartSync called with last_sync_at less than an hour old
\* returns 'skip', with no request sent to upstream for the session and
\* the record tables, the sync-state and the stored credential as they
\* were.
C2_FreshSkipsUntouched ==
    (Decided /\ syncState.last_sync_at # NULL /\ SinceLastSync < Hour) =>
        /\ call[ev.s].type = "skip"
        /\ call[ev.s].pc = "done"
        /\ \A k \in Kinds : req[ev.s][k] = IdleFetch
        /\ Store = ev.before

\* C2 witness: smartSync has been called with last_sync_at less than an
\* hour old and has skipped.
C2_Witness ==
    /\ Decided
    /\ syncState.last_sync_at # NULL
    /\ SinceLastSync < Hour
    /\ call[ev.s].type = "skip"

\* C10: no step, of a tool call with its query, of /callback, of a token
\* refresh or of a sync's merge, takes a primary key out of a record table.
C10_NoKeyLost ==
    \A k \in Kinds : Keys(ev.before.tables[k]) \subseteq Keys(tables[k])

\* C10 witness: a merge has replaced a row that was there, and its key is
\* there still.
C10_Witness ==
    /\ ev.op = "merged"
    /\ \E k \in Kinds : \E x \in ev.before.tables[k] :
          /\ x \notin tables[k]
          /\ x.id \in Keys(tables[k])

-----------------------------------------------------------------------------
(* Claims on updateSyncState, under SpecSyncState *)

Min(S) == CHOOSE x \in S : \A y \in S : x <= y

Max(S) == CHOOSE x \in S : \A y \in S : x >= y

\* C11: after any number of calls oldest_synced_date is the least of the
\* oldest dates passed and newest_synced_date the greatest of the newest
\* dates passed, the first call storing what it is passed; and no call
\* moves either boundary inward.
C11_WidenOnly ==
    ev.n >= 1 =>
        /\ syncState.oldest_synced_date = Min(ev.oldests)
        /\ syncState.newest_synced_date = Max(ev.newests)
        /\ syncState.last_sync_at # NULL
        /\ ev.before.oldest_synced_date # NULL =>
              syncState.oldest_synced_date <= ev.before.oldest_synced_date
        /\ ev.before.newest_synced_date # NULL =>
              syncState.newest_synced_date >= ev.before.newest_synced_date
        /\ ev.n = 1 =>
              /\ syncState.oldest_synced_date = ev.oldest
              /\ syncState.newest_synced_date = ev.newest

\* C11 witness: a later call has passed a range inside the stored one, and
\* the stored one has stayed.
C11_Witness ==
    /\ ev.n >= 2
    /\ ev.oldest > syncState.oldest_synced_date
    /\ ev.newest < syncState.newest_synced_date

-----------------------------------------------------------------------------
(* Claims on syncDays and the handlers, under Spec *)

\* C12: a sync that has just completed, whichever way it was started, has
\* set last_sync_at to the second it completed in; and no step moves
\* last_sync_at backwards or makes it absent again (NULL is below every
\* stamp), so it is absent only while no sync has completed.
C12_StampAdvances ==
    /\ ev.op = "merged" =>
          /\ syncState.last_sync_at # NULL
          /\ syncState.last_sync_at * Second <= now
          /\ now < (syncState.last_sync_at + 1) * Second
    /\ ev.before.syncState.last_sync_at <= syncState.last_sync_at

\* C12 witness: a sync has completed on a store synced before, and the
\* stamp has advanced.
C12_Witness ==
    /\ ev.op = "merged"
    /\ ev.before.syncState.last_sync_at # NULL
    /\ syncState.last_sync_at > ev.before.syncState.last_sync_at

\* the days smartSync's decision stands for
DaysOf(type) == IF type = "full" THEN 90 ELSE 7

\* C13: while the sync of a smartSync that decided 'full' or 'quick' is in
\* flight it is the only syncDays the call has made, over 90 days for
\* 'full' and 7 for 'quick', and each of the four collections has been
\* asked for with end = the instant of the call and start = that instant
\* less the days; and when it has returned, it has made that one call and
\* no other.
C13_OneWindowOfTheDays ==
    \A s \in Sessions :
        call[s].type \in {"full", "quick"} =>
            /\ call[s].windows = <<DaysOf(call[s].type)>>
            /\ call[s].pc = "syncing" =>
                  \A k \in Kinds :
                      /\ req[s][k].pc \in {"refreshing", "fetching", "ok"}
                      /\ req[s][k].end = call[s].at
                      /\ req[s][k].start = call[s].at - DaysOf(call[s].type) * Day

\* C13 witness: a smartSync that decided 'quick' has returned.
C13_Witness ==
    /\ ev.op = "merged"
    /\ call[ev.s].type = "quick"
    /\ call[ev.s].windows = <<7>>
    /\ call[ev.s].pc = "done"

\* the fetched recovery records no other fetched record was created after
Newest(records) ==
    {i \in 1..Len(records) :
        \A j \in 1..Len(records) : records[j].created_at <= records[i].created_at}

\* C14: when a smartSync that decided 'full' on an empty, never-synced
\* store has returned, getLatestRecovery() is null if no recovery record
\* was fetched, and otherwise the row written from the fetched recovery
\* record with the greatest creation time.
C14_LatestRecoveryIsNewestFetched ==
    (/\ ev.op = "merged"
     /\ call[ev.s].type = "full"
     /\ ev.before.tables = EmptyTables
     /\ ev.before.syncState = EmptySyncState)
        => LET got == auth.data["recovery"]
           IN  /\ got = <<>> => getLatestRecovery(tables["recovery"]) = <<>>
               /\ got # <<>> =>
                     \E i \in Newest(got) :
                         getLatestRecovery(tables["recovery"])
                             = <<RecoveryRow(got[i], CurrentTimestamp(now))>>

\* C14 witness: such a smartSync has returned with two recovery records
\* fetched, the newest first.
C14_Witness ==
    /\ ev.op = "merged"
    /\ call[ev.s].type = "full"
    /\ ev.before.tables = EmptyTables
    /\ ev.before.syncState = EmptySyncState
    /\ Len(auth.data["recovery"]) = 2
    /\ Cardinality(tables["recovery"]) = 2
    /\ Newest(auth.data["recovery"]) = {1}

\* the step was a Gateway error thrown into a sync that was running
GatewayFailed ==
    \/ ev.op = "fetch_failed"
    \/ ev.op \in {"syncDays", "smartSync"} /\ ev.error # <<>>

\* C15: a Gateway error thrown into a running sync is the error the sync
\* throws to its caller, message unchanged, and leaves every table and the
\* sync state as they were; and when an upsert throws, the tables of the
\* kinds before it hold their batches, the table of its own kind and of
\* the kinds after it are as before, and its error is the one thrown.
C15_ErrorsPropagateRowsStay ==
    /\ GatewayFailed =>
          /\ ev.error # <<>>
          /\ call[ev.s].pc = "done"
          /\ call[ev.s].error = ev.error
          /\ tables = ev.before.tables
          /\ syncState = ev.before.syncState
    /\ ev.op = "merge_failed" =>
          \E i \in 1..Len(KindOrder) :
              /\ ev.error = ConstraintError(KindOrder[i])
              /\ call[ev.s].error = ev.error
              /\ syncState = ev.before.syncState
              /\ \A j \in 1..Len(KindOrder) :
                    LET kind == KindOrder[j]
                    IN  tables[kind] =
                            IF j < i
                            THEN Upsert(kind, ev.before.tables[kind], auth.data[kind], now).table
                            ELSE ev.before.tables[kind]

\* C15 witness: the API refuses a fetch of a sync that sync_data is
\* running over a store that holds rows.
C15_Witness ==
    /\ ev.op = "fetch_failed"
    /\ call[ev.s].tool = "sync_data"
    /\ ev.error = RequestError("401", "Unauthorized")
    /\ call[ev.s].error = ev.error
    /\ tables["cycles"] # {}

\* reachable: an upsert has thrown after an earlier kind's batch was committed
C15_RetainedAcrossKinds ==
    /\ ev.op = "merge_failed"
    /\ ev.error = ConstraintError("recovery")
    /\ tables["cycles"] # ev.before.tables["cycles"]
    /\ tables["recovery"] = ev.before.tables["recovery"]

\* the step ended the sync of call ev.s with an error
SyncFailed == GatewayFailed \/ ev.op = "merge_failed"

\* C16: when the smartSync a data tool runs throws, the tool's result is
\* not an error: it is the answer its queries give on the tables as the
\* failed sync left them.
C16_DataToolSwallowsSyncFailure ==
    (SyncFailed /\ call[ev.s].tool = "data") =>
        /\ call[ev.s].pc = "done"
        /\ call[ev.s].error = ev.error
        /\ call[ev.s].result = "ok"
        /\ call[ev.s].text = <<>>
        /\ call[ev.s].read = <<tables>>

\* C16 witness: a fetch of a data tool's smartSync is refused over a
\* store that holds rows, and the tool has answered.
C16_Witness ==
    /\ ev.op = "fetch_failed"
    /\ call[ev.s].tool = "data"
    /\ call[ev.s].type \in {"full", "quick"}
    /\ call[ev.s].result = "ok"
    /\ call[ev.s].read = <<ev.before.tables>>
    /\ tables["cycles"] # {}

\* C17: when the sync sync_data runs throws, whether syncDays(90) for
\* full = true or smartSync() otherwise, the tool's result is an error
\* result whose text is "Error: " followed by the message of the error
\* thrown, unchanged.
C17_ManualSyncSurfacesFailure ==
    (SyncFailed /\ call[ev.s].tool = "sync_data") =>
        /\ call[ev.s].pc = "done"
        /\ call[ev.s].result = "error"
        /\ call[ev.s].text = <<"Error: ">> \o ev.error
        /\ call[ev.s].read = <<>>

\* C17 witness: the token endpoint refuses the refresh of a sync that
\* sync_data runs through smartSync, and the tool has answered.
C17_Witness ==
    /\ ev.op = "fetch_failed"
    /\ call[ev.s].tool = "sync_data"
    /\ call[ev.s].type \in {"full", "quick"}
    /\ ev.error = RefreshError("Unauthorized")
    /\ call[ev.s].result = "error"

\* reachable: sync_data with full = true has answered with an upsert's error
C17_FullSyncFailed ==
    /\ ev.op = "merge_failed"
    /\ call[ev.s].tool = "sync_data"
    /\ call[ev.s].type = "none"
    /\ call[ev.s].text = <<"Error: ">> \o ConstraintError("recovery")

\* the step was a data tool or sync_data called
Called == ev.op \in {"noauth", "smartSync", "syncDays"}

\* C18: a data tool or sync_data called while the tokens table holds no
\* row answers with the instruction to authorize through get_auth_url, and
\* that is all: the result is not an error, no request is in flight for
\* the call, and the tables, the sync state and the tokens row are as they
\* were.
C18_NoCredentialNoWork ==
    (Called /\ ev.before.tokenRow = <<>>) =>
        /\ ev.op = "noauth"
        /\ call[ev.s].pc = "done"
        /\ call[ev.s].tool \in {"data", "sync_data"}
        /\ call[ev.s].result = "noauth"
        /\ call[ev.s].text =
              <<"Not authenticated with Whoop. Use get_auth_url to authorize first.">>
        /\ call[ev.s].error = <<>>
        /\ call[ev.s].windows = <<>>
        /\ \A k \in Kinds : req[ev.s][k].pc = "idle"
        /\ Store = ev.before

\* C18 witness: sync_data has been called with no row in the tokens table.
C18_Witness ==
    /\ ev.op = "noauth"
    /\ ev.before.tokenRow = <<>>
    /\ call[ev.s].tool = "sync_data"
    /\ call[ev.s].result = "noauth"

-----------------------------------------------------------------------------
(* Claims on the handler's errors, under SpecHandlers *)

\* the step raised an error inside a tool call's handler
Threw ==
    /\ ev.error # <<>>
    /\ ev.op \in {"getTokens_threw", "other", "smartSync", "syncDays",
                  "fetch_failed", "merge_failed"}
    /\ ev.s \in Sessions

\* the error was thrown by the smartSync a data tool runs
Swallowed ==
    /\ call[ev.s].tool = "data"
    /\ ev.op \in {"smartSync", "fetch_failed", "merge_failed"}

\* C19 as stated: whenever an error is raised while a tool call is handled
\* (by the Gateway, the Store, decryption, or an unknown tool name), the
\* call ends with an error result whose text carries the error's message.
C19_EveryErrorReturned ==
    Threw =>
        /\ call[ev.s].pc = "done"
        /\ call[ev.s].result = "error"
        /\ call[ev.s].text = <<"Error: ">> \o ev.error

\* C19 amended: every tool call that has ended has a result, and whenever
\* an error is raised while a tool call is handled the call ends at that
\* step: with an error result whose text carries the error's message,
\* except that an error thrown by the smartSync a data tool runs is
\* dropped and the tool's normal answer is given from the store.
C19_EveryErrorCaught ==
    /\ \A s \in Sessions :
          call[s].pc = "done" => call[s].result \in {"ok", "uptodate", "noauth", "error"}
    /\ Threw =>
          /\ call[ev.s].pc = "done"
          /\ call[ev.s].error = ev.error
          /\ IF Swallowed
             THEN /\ call[ev.s].result = "ok"
                  /\ call[ev.s].read = <<tables>>
             ELSE /\ call[ev.s].result = "error"
                  /\ call[ev.s].text = <<"Error: ">> \o ev.error

\* C19 witness: a data tool is called when the stored refresh token does
\* not decrypt, and answers with the error's message.
C19_Witness ==
    /\ ev.op = "getTokens_threw"
    /\ call[ev.s].tool = "data"
    /\ call[ev.s].pc = "done"
    /\ call[ev.s].result = "error"
    /\ call[ev.s].text = <<"Error: ", "Invalid encrypted data format">>

\* reachable: the errors of the other origins, each returned as text
C19_UnknownToolReturned ==
    /\ ev.op = "other"
    /\ call[ev.s].text = <<"Error: ", "Unknown tool: ", "get_weather">>

C19_StoreErrorReturned ==
    /\ ev.op = "merge_failed"
    /\ call[ev.s].tool = "sync_data"
    /\ call[ev.s].text = <<"Error: ">> \o ConstraintError("recovery")

C19_GatewayErrorReturned ==
    /\ ev.op = "fetch_failed"
    /\ call[ev.s].tool = "sync_data"
    /\ call[ev.s].text = <<"Error: ">> \o RequestError("401", "Unauthorized")

-----------------------------------------------------------------------------
(* Claims on the days argument, under SpecDays *)

\* the string holds no decimal digit
NonNumeric(s) == \A i \in 1..Len(s) : s[i] \notin Digits

\* C20: whatever the days argument, the value a trend tool binds to the
\* Store's query is a finite number from 1 to 90: 14 when the argument is
\* absent, null, NaN, without any digit, or a number below 1; the number
\* itself when it is from 1 to 90, fractions included; and 90 when it is
\* above 90.
C20_DaysWithinOneAndNinety ==
    ev.op \in TrendTools =>
        LET value == ev.value
            days == ev.days[1]
        IN  /\ days.k = "finite"
            /\ 1 * Unit <= days.n
            /\ days.n <= 90 * Unit
            /\ value.t \in {"undefined", "null"} => days.n = 14 * Unit
            /\ (value.t \in {"string", "boolean"} /\ NonNumeric(value.s)) => days.n = 14 * Unit
            /\ (value.t = "number" /\ value.num.k \in {"NaN", "-Infinity"}) => days.n = 14 * Unit
            /\ (value.t = "number" /\ value.num.k = "Infinity") => days.n = 90 * Unit
            /\ (value.t = "number" /\ value.num.k = "finite") =>
                  days.n = IF value.num.n < 1 * Unit THEN 14 * Unit
                           ELSE IF value.num.n > 90 * Unit THEN 90 * Unit
                           ELSE value.num.n

\* C20 witness: a trend tool has been called with a negative number of
\* days and has bound 14.
C20_Witness ==
    /\ ev.op = "get_sleep_analysis"
    /\ ev.value.t = "number"
    /\ ev.value.num.k = "finite"
    /\ ev.value.num.n < 0
    /\ ev.days = <<Finite(14 * Unit)>>

\* reachable: a string above 90, and a fraction passed as it is
C20_StringAboveNinety ==
    /\ ev.op \in TrendTools
    /\ ev.value = Str(<<"9", "9", "x">>)
    /\ ev.days = <<Finite(90 * Unit)>>

C20_FractionPassed ==
    /\ ev.op \in TrendTools
    /\ ev.value = Num(Finite(2 * Unit + 1))
    /\ ev.days = <<Finite(2 * Unit + 1)>>

-----------------------------------------------------------------------------
(* Claims on the trend queries, under SpecTrends *)

\* the column a trend query dates a row by, and its primary score
TrendTime(tool, row) == IF tool = "get_recovery_trends" THEN row.created_at ELSE row.start_time

TrendScore(tool, row) ==
    CASE tool = "get_recovery_trends" -> row.recovery_score
      [] tool = "get_sleep_analysis" -> row.sleep_performance
      [] tool = "get_strain_history" -> row.strain

\* C21: a trend query keeps only rows whose creation or start time lies
\* between now less the days and now, and whose primary score is not null.
C21_TrendsWithinWindow ==
    ev.op \in TrendTools =>
        \A row \in ev.kept :
            /\ now - (ev.days.n * Day) \div Unit <= TrendTime(ev.op, row)
            /\ TrendTime(ev.op, row) <= now
            /\ TrendScore(ev.op, row) # NULL

\* C21 witness: get_recovery_trends over one day, called at noon, has
\* kept a recovery created at eight the morning before.
C21_Witness ==
    /\ ev.op = "get_recovery_trends"
    /\ ev.days = Finite(1 * Unit)
    /\ now = Epoch + 12 * Hour
    /\ \E row \in ev.kept : row.created_at = Epoch - Day + 8 * Hour

\* what the queries do keep: the rows of the table with a primary score
\* (for sleep, that are not naps) dated on or after the UTC date of now
\* less the days; the answer has one row for each, scores as stored
C21_TrendsFromDate ==
    ev.op \in TrendTools =>
        /\ ev.kept =
              {row \in tables[TrendKind(ev.op)] :
                  /\ TrendScore(ev.op, row) # NULL
                  /\ ev.op = "get_sleep_analysis" => row.is_nap = 0
                  /\ IsoDate(TrendTime(ev.op, row))
                        >= IsoDate(now - (ev.days.n * Day) \div Unit)}
        /\ Len(ev.rows) = Cardinality(ev.kept)
        /\ \A i \in 1..Len(ev.rows) :
              \E row \in ev.kept :
                  /\ ev.rows[i].date = IsoDate(TrendTime(ev.op, row))
                  /\ ev.op = "get_recovery_trends" =>
                        ev.rows[i].recovery_score = row.recovery_score
                  /\ ev.op = "get_sleep_analysis" =>
                        ev.rows[i].performance = row.sleep_performance
                  /\ ev.op = "get_strain_history" => ev.rows[i].strain = row.strain

-----------------------------------------------------------------------------
(* Credential Store claims, under SpecCrypto.                              *)

\* one of the two secrets is set
Configured == auth.ENCRYPTION_SECRET # "" \/ auth.WHOOP_CLIENT_SECRET # ""

\* C22: with a secret configured, decrypt(encrypt(t)) returns t for every
\* text t, the empty text included; and getTokens returns a column for
\* which isEncrypted reports false as it is stored.
C22_RoundTripAndLegacy ==
    /\ (ev.op = "roundtrip" /\ Configured) =>
            ev.error = <<>> /\ ev.out = ev.text
    /\ (ev.op = "getTokens" /\ ev.error = <<>> /\ ev.before # <<>>) =>
            /\ ~isEncrypted(ev.before[1].access_token) =>
                    Plain(ev.out[1][1].access_token) = ev.before[1].access_token
            /\ ~isEncrypted(ev.before[1].refresh_token) =>
                    Plain(ev.out[1][1].refresh_token) = ev.before[1].refresh_token

\* C22: the empty text has gone through encrypt and decrypt with a secret
\* configured.
C22_Witness ==
    ev.op = "roundtrip" /\ Configured /\ ev.text = <<EmptyText>>

\* C22: what the code does: the round trip returns every text but the
\* empty one, on which decrypt throws the format error; a legacy column is
\* returned as stored.
C22_RoundTripButEmpty ==
    /\ (ev.op = "roundtrip" /\ Configured /\ ev.text # <<EmptyText>>) =>
            ev.error = <<>> /\ ev.out = ev.text
    /\ (ev.op = "roundtrip" /\ Configured /\ ev.text = <<EmptyText>>) =>
            ev.error = DecryptError /\ ev.out = <<>>
    /\ (ev.op = "getTokens" /\ ev.error = <<>> /\ ev.before # <<>>) =>
            /\ ~isEncrypted(ev.before[1].access_token) =>
                    Plain(ev.out[1][1].access_token) = ev.before[1].access_token
            /\ ~isEncrypted(ev.before[1].refresh_token) =>
                    Plain(ev.out[1][1].refresh_token) = ev.before[1].refresh_token

\* C22: a legacy row in the clear has been read.
C22_LegacyRead ==
    /\ ev.op = "getTokens" /\ ev.error = <<>> /\ ev.before # <<>>
    /\ ~isEncrypted(ev.before[1].access_token)
    /\ ~isEncrypted(ev.before[1].refresh_token)

\* the token columns of a row
TokenColumns(row) == {row[1].access_token, row[1].refresh_token}

\* C23: every saveTokens that returns has written both tokens as
\* ciphertext that isEncrypted recognises, never as the token in the
\* clear, and a getTokens on a row saveTokens wrote returns exactly the
\* pair that was saved.
C23_SaveEncryptsLoadReturns ==
    /\ (ev.op = "saveTokens" /\ ev.error = <<>>) =>
            /\ \A column \in TokenColumns(tokenRow) : isEncrypted(column)
            /\ tokenRow[1].access_token # Plain(ev.tokens[1].access_token)
            /\ tokenRow[1].refresh_token # Plain(ev.tokens[1].refresh_token)
    /\ (ev.op = "getTokens" /\ ev.saved # <<>>) =>
            ev.error = <<>> /\ ev.out = <<ev.saved>>

\* C23: a pair with an empty refresh token has been saved and the row read.
C23_Witness ==
    /\ ev.op = "getTokens" /\ ev.saved # <<>> /\ Configured
    /\ ev.saved[1].access_token # NULL
    /\ ev.saved[1].refresh_token = NULL

\* C23: what the code does: every save that returns writes ciphertext, and
\* a read of the saved row returns the saved pair when neither token is
\* empty and throws the format error otherwise.
C23_SaveEncryptsLoadThrowsOnEmpty ==
    /\ (ev.op = "saveTokens" /\ ev.error = <<>>) =>
            /\ \A column \in TokenColumns(tokenRow) : isEncrypted(column)
            /\ tokenRow[1].access_token # Plain(ev.tokens[1].access_token)
            /\ tokenRow[1].refresh_token # Plain(ev.tokens[1].refresh_token)
    /\ (ev.op = "getTokens" /\ ev.saved # <<>> /\ Configured) =>
            IF NULL \in {ev.saved[1].access_token, ev.saved[1].refresh_token}
            THEN ev.error = DecryptError /\ ev.out = <<>>
            ELSE ev.error = <<>> /\ ev.out = <<ev.saved>>

\* C23: a pair of two non-empty tokens has been saved and read back.
C23_SavedPairRead ==
    /\ ev.op = "getTokens" /\ ev.saved # <<>> /\ ev.error = <<>>
    /\ ev.out = <<ev.saved>>

\* C24: with no secret configured, encrypt throws the configuration error,
\* saveTokens throws it and leaves the stored row as it was, and getTokens
\* on a row with an encrypted column throws it and returns nothing.
C24_NoSecretNoSaveNoLoad ==
    ~Configured =>
        /\ ev.op = "roundtrip" => ev.error = KeyError /\ ev.out = <<>>
        /\ ev.op = "saveTokens" => ev.error = KeyError /\ tokenRow = ev.before
        /\ (/\ ev.op = "getTokens"
            /\ ev.before # <<>>
            /\ \E column \in TokenColumns(ev.before) : isEncrypted(column)) =>
                ev.error = KeyError /\ ev.out = <<>> /\ held = <<>>

\* C24: with no secret configured, getTokens has been called on a row that
\* saveTokens wrote with both tokens encrypted.
C24_Witness ==
    /\ ~Configured
    /\ ev.op = "getTokens"
    /\ ev.before # <<>>
    /\ \A column \in TokenColumns(ev.before) :
            isEncrypted(column) /\ ~decryptThrows(column)

\* C24: with no secret configured, saveTokens has been called on a store
\* that holds a row.
C24_SaveWithoutSecret ==
    ~Configured /\ ev.op = "saveTokens" /\ ev.before # <<>>

-----------------------------------------------------------------------------
(* The getAll loops, under SpecPages.                                      *)

RECURSIVE Concatenation(_)
\* the records of a sequence of pages, page after page
Concatenation(pages) ==
    IF pages = <<>> THEN <<>>
    ELSE Head(pages) \o Concatenation(Tail(pages))

\* C25: a getAll that has returned has returned the records of all pages
\* of its collection in upstream's order; its first query carried no
\* nextToken, each later one the next_token of the response before it, and
\* every query the start and end of the call.
C25_AllPagesInOrder ==
    /\ call.pc = "returned" =>
            /\ call.out = <<Concatenation(auth.data[call.kind])>>
            /\ Len(req) = Len(auth.data[call.kind])
    /\ \A i \in 1..Len(req) :
            /\ req[i].path = Path(call.kind)
            /\ req[i].start = call.params.start
            /\ req[i].end = call.params.end
            /\ req[i].nextToken =
                    IF i = 1 THEN NULL ELSE Page(auth, req[i - 1]).next_token

\* C25: a getAll has returned a collection of three pages, the second of
\* them empty, whose records are not in ascending order.
C25_Witness ==
    /\ call.pc = "returned"
    /\ Len(req) = MaxPages
    /\ auth.data[call.kind] = <<<<2, 1>>, <<>>, <<1>>>>
    /\ call.out = <<<<2, 1, 1>>>>

-----------------------------------------------------------------------------
(* The session sweep, under SpecSessions.                                  *)

\* C26: a session whose last access lies more than the TTL back is gone
\* from the map by one sweep period after the TTL has elapsed: no session
\* in the map has idled for more than the TTL and a period, none that has
\* idled for more than the TTL outlives a sweep, and the transport of
\* every session the sweep removed has been closed.
C26_StaleSessionsSwept ==
    /\ \A id \in DOMAIN call : now - call[id].lastAccess <= SESSION_TTL_MS + SweepPeriod
    /\ ev.op = "cleanup" =>
            /\ \A id \in DOMAIN call : now - call[id].lastAccess <= SESSION_TTL_MS
            /\ \A id \in DOMAIN ev.before :
                    now - ev.before[id].lastAccess > SESSION_TTL_MS =>
                        id \notin DOMAIN call /\ id \in req.closed
            /\ ev.removed \subseteq req.closed

\* C26: a sweep has removed a session last accessed exactly at a sweep
\* instant, a TTL and a period before, while sparing another.
C26_Witness ==
    /\ ev.op = "cleanup"
    /\ \E id \in ev.removed :
            now - ev.before[id].lastAccess = SESSION_TTL_MS + SweepPeriod
    /\ DOMAIN call # {}

\* C26: a sweep has spared a session that had idled for exactly the TTL.
C26_SparedAtTtl ==
    /\ ev.op = "cleanup"
    /\ \E id \in DOMAIN call : now - call[id].lastAccess = SESSION_TTL_MS

-----------------------------------------------------------------------------
(* The token lifecycle, under SpecGateway.                                 *)

\* C27: once the token endpoint has rejected a refresh, no refresh
\* succeeds and no request() goes on to its GET until an
\* authorization-code exchange has been made.
C27_RefreshFailureIsTerminal ==
    ev.failed => ev.op \notin {"refreshed", "get_after_refresh", "get"}

\* C27: a refresh has succeeded after a rejected one, with no exchange in
\* between.
C27_Witness ==
    ev.failed /\ ev.op = "refreshed"

\* C27: what the code does: a rejected refresh throws and leaves the held
\* pair and the stored row as they were, so that the next request()
\* posts the same refresh grant again.
C27_RejectedRefreshKeepsTokens ==
    /\ ev.op = "refresh_rejected" =>
            /\ held = ev.heldBefore
            /\ tokenRow = ev.rowBefore
            /\ req[ev.r].pc = "threw"
    /\ (ev.failed /\ ev.op = "post_grant") =>
            req[ev.r].sent = held[1].refresh_token

-----------------------------------------------------------------------------
(* The order of one syncDays, under Spec.                                  *)

\* the place of each kind in the order the claim names
Rank == [cycles |-> 1, recovery |-> 2, sleep |-> 3, workouts |-> 4]

\* the table of a kind as the upsert of what upstream holds leaves it
Upserted(kind) ==
    IF auth.data[kind] = <<>> THEN ev.before.tables[kind]
    ELSE Upsert(kind, ev.before.tables[kind], auth.data[kind], now).table

\* C28: the four fetches of a sync are in flight together; no table and no
\* sync-state changes but in the step that follows the last of the four
\* fetches; the upserts run in the order cycles, recovery, sleep,
\* workouts, so that one that throws leaves the kinds before it upserted
\* and its own and the later ones as they were; and sync-state changes
\* only when all upserts have been made.
C28_FetchesThenUpsertsThenState ==
    /\ \A s \in Syncs :
            call[s].pc = "syncing" =>
                \A k \in Kinds : req[s][k].pc \in {"refreshing", "fetching", "ok"}
    /\ (ev.op \in {"smartSync", "syncDays", "callback"} /\ call[ev.s].pc = "syncing") =>
            \A k \in Kinds : req[ev.s][k].pc \in {"refreshing", "fetching"}
    /\ (tables # ev.before.tables \/ syncState # ev.before.syncState) =>
            ev.op \in {"merged", "merge_failed"}
    /\ ev.op = "fetched" =>
            /\ \E k \in Kinds : req[ev.s][k].pc \in {"refreshing", "fetching"}
            /\ tables = ev.before.tables
    /\ ev.op = "merged" =>
            /\ \A k \in Kinds : tables[k] = Upserted(k)
            /\ syncState = updateSyncState(ev.before.syncState,
                                IsoDate(call[ev.s].at - call[ev.s].days * Day),
                                IsoDate(call[ev.s].at), now)
    /\ ev.op = "merge_failed" =>
            /\ syncState = ev.before.syncState
            /\ \E failed \in Kinds :
                /\ ev.error = ConstraintError(failed)
                /\ \A k \in Kinds :
                        tables[k] = IF Rank[k] < Rank[failed] THEN Upserted(k)
                                    ELSE ev.before.tables[k]

\* C28: recovery's upsert has thrown after cycles' upsert had changed its
\* table, with sleep and workouts fetched and not upserted.
C28_Witness ==
    /\ ev.op = "merge_failed"
    /\ ev.error = ConstraintError("recovery")
    /\ tables["cycles"] # ev.before.tables["cycles"]
    /\ auth.data["sleep"] # <<>>
    /\ auth.data["workouts"] # <<>>
    /\ tables["sleep"] = ev.before.tables["sleep"]

\* C28: a fetch has completed while another of the same sync was still in
\* flight.
C28_FetchedWhileOthersFly ==
    /\ ev.op = "fetched"
    /\ \E k \in Kinds : req[ev.s][k].pc = "ok"
    /\ \E k \in Kinds : req[ev.s][k].pc = "fetching"

-----------------------------------------------------------------------------
(* Empty results in syncDays, under Spec.                                  *)

\* the keys of the records of a result
KeysOf(kind, records) == {KeyOf(kind, records[i]) : i \in 1..Len(records)}

\* C29: a syncDays that has returned has left the table of every kind with
\* an empty result as it was and has upserted every kind with a non-empty
\* one, whatever the results of the other kinds; its counts are the
\* numbers of records fetched, kind by kind; and it has updated
\* sync-state, also when all four results were empty.
C29_EmptyResultsSkipOnlyTheirUpsert ==
    ev.op = "merged" =>
        /\ \A k \in Kinds :
                IF auth.data[k] = <<>>
                THEN tables[k] = ev.before.tables[k]
                ELSE /\ tables[k] = Upserted(k)
                     /\ \A id \in KeysOf(k, auth.data[k]) :
                            \E row \in tables[k] :
                                row.id = id /\ row.synced_at = CurrentTimestamp(now)
        /\ ev.stats = <<[cycles |-> Len(auth.data["cycles"]),
                         recoveries |-> Len(auth.data["recovery"]),
                         sleeps |-> Len(auth.data["sleep"]),
                         workouts |-> Len(auth.data["workouts"])]>>
        /\ syncState.last_sync_at = CurrentTimestamp(now)
        /\ syncState = updateSyncState(ev.before.syncState,
                            IsoDate(call[ev.s].at - call[ev.s].days * Day),
                            IsoDate(call[ev.s].at), now)

\* C29: a syncDays has returned with no recovery and no sleep fetched and
\* with cycles and workouts upserted.
C29_Witness ==
    /\ ev.op = "merged"
    /\ auth.data["recovery"] = <<>>
    /\ auth.data["sleep"] = <<>>
    /\ ev.stats = <<[cycles |-> 2, recoveries |-> 0, sleeps |-> 0, workouts |-> 1]>>
    /\ tables["cycles"] # ev.before.tables["cycles"]
    /\ tables["workouts"] # ev.before.tables["workouts"]

\* C29: a syncDays that fetched nothing at all has updated sync-state.
C29_NothingFetchedStateUpdated ==
    /\ ev.op = "merged"
    /\ \A k \in Kinds : auth.data[k] = <<>>
    /\ syncState # ev.before.syncState

-----------------------------------------------------------------------------
(* Interleaved smartSync calls, under SpecRace.                            *)

\* the sync of session s has just returned, having read sync-state before
\* the sync of session o returned, which it has
Interleaved(s, o) ==
    /\ s # o
    /\ ev.op = "merged"
    /\ ev.s = s
    /\ call[o].pc = "done"
    /\ call[o].windows # <<>>
    /\ call[o].error = <<>>
    /\ ev.before.syncState.last_sync_at >= CurrentTimestamp(call[s].at)

\* the tables one syncDays leaves on the store a deployment started with
SingleSync(t0, days, at, t) ==
    Merge(EarlierStore(t0).tables, EarlierStore(t0).syncState, auth.data, days, at, t).tables

\* C30: when the syncs of two sessions have interleaved and both have
\* upserted, the tables are those one sync alone leaves, no two rows of a
\* table share a key, and every row with a fetched key is the row of one
\* fetched record as a whole.
C30_InterleavedSyncsAreSafe ==
    \A s \in Racers, o \in Racers :
        Interleaved(s, o) =>
            /\ \E t0 \in {NULL} \cup EarlierSyncs :
                    tables = SingleSync(t0, call[s].days, call[s].at, now)
            /\ \A k \in Kinds :
                /\ \A x \in tables[k], y \in tables[k] : x.id = y.id => x = y
                /\ \A x \in tables[k] :
                        x.id \in KeysOf(k, auth.data[k]) =>
                            \E i \in 1..Len(auth.data[k]) :
                                x = RowOf(k, auth.data[k][i], CurrentTimestamp(now))

\* C30: two syncs that both read sync-state before either returned have
\* both upserted, the second a second after the first, over rows the first
\* had written.
C30_Witness ==
    \E s \in Racers, o \in Racers :
        /\ Interleaved(s, o)
        /\ call[s].at = Epoch
        /\ call[o].at = Epoch
        /\ ev.before.syncState.last_sync_at = CurrentTimestamp(Epoch)
        /\ now = Epoch + Second
        /\ auth.data["cycles"] # <<>>
        /\ \A x \in ev.before.tables["cycles"] : x.synced_at = CurrentTimestamp(Epoch)

-----------------------------------------------------------------------------
(* Termination of the getAll loops, under SpecPagesLive.                   *)

\* the number of the first page of the collection whose response carries
\* no token: the last page upstream holds
LastPage == Len(auth.data[call.kind])

\* C31: a getAll sends no query beyond the first page whose next_token is
\* absent or empty and returns as soon as that page has arrived, after as
\* many pages as upstream holds; and a getAll that waits for a page
\* returns or throws in the end.
C31_StopsAtTheFirstPageWithoutToken ==
    /\ [](/\ call.pc # "idle" => Len(req) <= LastPage
          /\ call.pc = "returned" =>
                /\ Len(req) = LastPage
                /\ ~Truthy(Page(auth, req[Len(req)]).next_token)
                /\ \A i \in 1..(Len(req) - 1) : Truthy(Page(auth, req[i]).next_token)
          /\ (call.pc = "awaiting" /\ Len(req) = LastPage) => ev.op \in {"getAll", "page"})
    /\ (call.pc = "awaiting" ~> call.pc \in {"returned", "threw"})

\* C31: a getAll has returned after as many pages as the model lets a
\* collection have, the last of which ended with an empty next_token.
C31_Witness ==
    /\ call.pc = "returned"
    /\ Len(req) = MaxPages
    /\ auth.last = EmptyToken
    /\ call.nextToken = EmptyToken

-----------------------------------------------------------------------------
(* What changes the record tables, under SpecHandlers.                     *)

\* the steps in which a handler has answered
AnswerSteps == {"getTokens_threw", "noauth", "smartSync", "syncDays", "other",
                "fetch_failed", "merged", "merge_failed"}

\* C32: the tables differ from those before the last step only when that
\* step made the upserts of a sync, and then each table is as it was or as
\* the upsert of the fetched records leaves it; and the tables a handler's
\* queries have read for its answer are the tables as they are after the
\* answer.
C32_OnlyUpsertsChangeRows ==
    /\ tables # ev.before.tables =>
            /\ ev.op \in {"merged", "merge_failed"}
            /\ \A k \in Kinds : tables[k] \in {ev.before.tables[k], Upserted(k)}
    /\ (ev.op \in AnswerSteps /\ call[ev.s].pc = "done") =>
            /\ call[ev.s].read \in {<<>>, <<tables>>}
            /\ ev.op \notin {"merged", "merge_failed"} => tables = ev.before.tables

\* C32: a data tool has answered from a store with rows, without a sync,
\* and the rows are as they were.
C32_Witness ==
    /\ ev.op = "smartSync"
    /\ call[ev.s].type = "skip"
    /\ call[ev.s].tool = "data"
    /\ call[ev.s].read = <<tables>>
    /\ tables["recovery"] # {}
    /\ tables = ev.before.tables

\* C32: a data tool has answered after its sync changed rows.
C32_AnsweredAfterUpserts ==
    /\ ev.op = "merged"
    /\ call[ev.s].tool = "data"
    /\ call[ev.s].read = <<tables>>
    /\ tables # ev.before.tables

-----------------------------------------------------------------------------
(* A sync one of whose fetches fails, under SpecRace.                      *)

\* the sync of session s has made its upserts and updated sync-state
Merged(s) == call[s].pc = "done" /\ call[s].windows # <<>> /\ call[s].error = <<>>

\* the sync of session s has thrown the error of a fetch
FetchThrew(s) ==
    /\ call[s].pc = "done"
    /\ call[s].windows # <<>>
    /\ \E refusal \in Refusals : call[s].error = RequestError(refusal.status, refusal.body)

\* C33: the step in which a fetch of a sync fails changes no table and no
\* field of sync-state, and no fetch of a sync that has ended can bring
\* anything to an upsert: tables and sync-state change only in the step
\* that follows the last of four fetches that all succeeded.  So a
\* smartSync that follows a failed sync, with no sync completed since that
\* one began, decides on the stamp that was there before it: 'full' on a
\* store never synced, and 'skip' only less than an hour after the sync
\* that wrote the stamp.
C33_FailedSyncWritesNothing ==
    /\ ev.op = "fetch_failed" =>
            /\ tables = ev.before.tables
            /\ syncState = ev.before.syncState
            /\ call[ev.s].pc = "done"
    /\ \A s \in DOMAIN call :
            call[s].pc # "syncing" => \A k \in Kinds : req[s][k].pc \in {"idle", "refreshing"}
    /\ (tables # ev.before.tables \/ syncState # ev.before.syncState) =>
            /\ ev.op \in {"merged", "merge_failed"}
            /\ \A k \in Kinds : req[ev.s][k] = IdleFetch
    /\ (/\ ev.op = "smartSync"
        /\ \E o \in DOMAIN call \ {ev.s} :
                FetchThrew(o) /\ syncState.last_sync_at < CurrentTimestamp(call[o].at)) =>
            /\ syncState.last_sync_at = NULL => call[ev.s].type = "full"
            /\ call[ev.s].type = "skip" =>
                    /\ syncState.last_sync_at # NULL
                    /\ now - UtcInstant(syncState.last_sync_at) < Hour

\* C33: on a store never synced, the sync of one session has failed on a
\* fetch and the smartSync of another session, called after that, has
\* decided 'full'.
C33_Witness ==
    /\ ev.op = "smartSync"
    /\ \E o \in DOMAIN call : o # ev.s /\ FetchThrew(o) /\ call[o].type = "full"
    /\ syncState.last_sync_at = NULL
    /\ call[ev.s].type = "full"
    /\ \A k \in Kinds : tables[k] = {}

-----------------------------------------------------------------------------
(* What a session can observe of another session's merge, under SpecRace.  *)

\* the store holds no part of a merge: no row is stamped later than
\* last_sync_at, and the rows of the records upstream holds, of every
\* kind, are stamped with last_sync_at
StoreWhole ==
    \A k \in Kinds :
        \A row \in tables[k] :
            /\ row.synced_at <= syncState.last_sync_at
            /\ row.id \in KeysOf(k, auth.data[k]) => row.synced_at = syncState.last_sync_at

\* the handler of a session has just read the store
Observed == ev.op = "smartSync"

\* an upsert of the sync of session s has thrown
UpsertThrew(s) == \E k \in Kinds : call[s].error = ConstraintError(k)

\* upstream holds a record whose upsert throws
UpsertThrows ==
    \E k \in Kinds : \E i \in 1..Len(auth.data[k]) : RunFails(k, RowOf(k, auth.data[k][i], 0))

\* C34, as stated: whenever a handler reads the store, it finds no part of
\* a merge there: not some kinds of a sync upserted and others not, and no
\* rows upserted with sync-state not yet updated.
C34_NoPartialMergeObserved == Observed => StoreWhole

\* C34, amended: while upstream holds no record whose upsert throws, the
\* store holds no part of a merge in any state, so that no step of
\* another session finds one; the step that makes the upserts of a sync
\* updates sync-state as well; and only a sync whose upsert threw has
\* changed tables and left sync-state as it was.
C34_NoPartialMergeUnlessUpsertThrew ==
    /\ ~UpsertThrows => StoreWhole
    /\ ev.op = "merged" =>
            /\ \A k \in Kinds : tables[k] = Upserted(k)
            /\ syncState.last_sync_at = CurrentTimestamp(now)
    /\ ev.op = "merge_failed" =>
            /\ UpsertThrows
            /\ UpsertThrew(ev.s)
            /\ syncState = ev.before.syncState

\* C34: a session's handler has read the store after the sync of another
\* session had upserted records of every kind, and has skipped.
C34_Witness ==
    /\ Observed
    /\ \E s \in DOMAIN call : s # ev.s /\ Merged(s)
    /\ call[ev.s].type = "skip"
    /\ call[ev.s].read = <<tables>>
    /\ \A k \in Kinds : \E row \in tables[k] : row.synced_at = syncState.last_sync_at
    /\ syncState.last_sync_at >= CurrentTimestamp(Epoch)

-----------------------------------------------------------------------------
(* The refresh grants of concurrent requests, under Spec.                  *)

\* the fetches whose refresh grant is with the token endpoint
Refreshing == {f \in (DOMAIN req) \X Kinds : req[f[1]][f[2]].pc = "refreshing"}

\* C35, as stated: no two refresh grants in flight carry the same refresh
\* token, also when the four fetches of one syncDays find the held token
\* inside the margin together.
C35_EachRefreshTokenSentOnce ==
    \A f \in Refreshing, g \in Refreshing :
        f # g => req[f[1]][f[2]].sent # req[g[1]][g[2]].sent

\* C35: the four fetches of one syncDays have each sent a refresh grant
\* with the one refresh token the Gateway held.
C35_FourGrantsOneToken ==
    \E s \in DOMAIN req :
        /\ ev.op \in {"smartSync", "syncDays"}
        /\ ev.s = s
        /\ \A k \in Kinds : req[s][k].pc = "refreshing" /\ req[s][k].sent = held[1].refresh_token

-----------------------------------------------------------------------------
(* The held pair and the stored pair, under SpecGateway.                   *)

\* a refresh grant is with the token endpoint
RefreshInFlight == \E r \in Callers : req[r].pc = "refreshing"

-----------------------------------------------------------------------------
(* Which sessions the sweep removes, under SpecSessions.                   *)

\* C37: the sweep removes only sessions last accessed more than the TTL
\* before it and leaves every other session as it was; a GET or POST on a
\* session of the map sets its lastAccess to the time of the request and
\* leaves the others alone, so that a session accessed within the TTL
\* before a sweep is in the map after it; and the id of a session removed
\* by the sweep or by DELETE is in the map no more.
C37_SweepSparesSessionsInUse ==
    /\ ev.op = "cleanup" =>
            /\ \A id \in ev.removed :
                    /\ id \in DOMAIN ev.before
                    /\ now - ev.before[id].lastAccess > SESSION_TTL_MS
            /\ \A id \in DOMAIN ev.before :
                    now - ev.before[id].lastAccess <= SESSION_TTL_MS =>
                        id \in DOMAIN call /\ call[id] = ev.before[id]
    /\ ev.op = "access" =>
            /\ DOMAIN call = DOMAIN ev.before
            /\ \E id \in DOMAIN call :
                    /\ call[id].lastAccess = now
                    /\ \A o \in DOMAIN call \ {id} : call[o] = ev.before[o]
    /\ ev.op \in {"cleanup", "delete"} => \A id \in ev.removed : id \notin DOMAIN call
    /\ \A id \in req.closed : id \notin DOMAIN call
    /\ DOMAIN call \cup req.closed = 1..req.made

\* C37: a sweep later than the first that can remove anything has
\* removed a session and has spared another, last accessed exactly the TTL
\* before it.
C37_Witness ==
    /\ ev.op = "cleanup"
    /\ ev.removed # {}
    /\ \E id \in DOMAIN call : now - call[id].lastAccess = SESSION_TTL_MS
    /\ now > Epoch + SESSION_TTL_MS + SweepPeriod

-----------------------------------------------------------------------------
(* The full argument of sync_data, under SpecFull.                         *)

\* the client has passed the boolean true or the string 'true'
AskedFull == auth.full \in {Bool(TRUE), Str(TrueText)}

\* C38: sync_data called with the boolean true or the string 'true' asks
\* smartSync nothing and starts syncDays(90), whatever last_sync_at is;
\* called with anything else it does what the decision table says for the
\* age of last_sync_at, with 7 days for 'quick' and 90 for 'full'; and it
\* answers that the data is up to date exactly when smartSync has
\* returned 'skip'.
C38_FullAlwaysSyncsNinetyDays ==
    \A s \in Sessions :
        /\ (ev.op \in {"syncDays", "smartSync"} /\ ev.s = s) =>
                /\ ev.op = "syncDays" <=> AskedFull
                /\ AskedFull =>
                        /\ call[s].type = "none"
                        /\ call[s].windows = <<90>>
                        /\ call[s].pc = "syncing" =>
                                \A k \in Kinds : req[s][k].start = now - 90 * Day
                /\ ~AskedFull =>
                        /\ call[s].type =
                                IF syncState.last_sync_at = NULL THEN "full"
                                ELSE IF SinceLastSync < Hour THEN "skip" ELSE "quick"
                        /\ call[s].windows =
                                CASE call[s].type = "skip" -> <<>>
                                  [] call[s].type = "quick" -> <<7>>
                                  [] OTHER -> <<90>>
        /\ call[s].result = "uptodate" <=> (call[s].pc = "done" /\ call[s].type = "skip")
        /\ call[s].type = "skip" => (~AskedFull /\ call[s].windows = <<>>)

\* C38: sync_data called with the string 'true' less than an hour after
\* the last sync has started syncDays(90).
C38_Witness ==
    /\ ev.op = "syncDays"
    /\ auth.full = Str(TrueText)
    /\ syncState.last_sync_at # NULL
    /\ SinceLastSync < Hour
    /\ call[ev.s].pc = "syncing"
    /\ call[ev.s].days = 90

\* C38: sync_data called with the string 'false' less than an hour after
\* the last sync has answered that the data is up to date.
C38_FalseTextSkips ==
    /\ ev.op = "smartSync"
    /\ auth.full = Str(FalseText)
    /\ call[ev.s].result = "uptodate"

-----------------------------------------------------------------------------
(* The stamp of the last sync as smartSync reads it, under Spec.           *)

\* C39, as stated: the stamp updateSyncState has just written reads back,
\* by new Date, as the instant of the update (to the second), and the
\* time smartSync compares with an hour is the time since the instant the
\* stamp names, in every zone of the host.
C39_StampReadBackAsSameInstant ==
    /\ ev.op = "merged" =>
            DateParse(syncState.last_sync_at, tz) = UtcInstant(CurrentTimestamp(now))
    /\ (Decided /\ syncState.last_sync_at # NULL) =>
            now - DateParse(syncState.last_sync_at, tz) = SinceLastSync

\* C39: on a host an hour east of UTC, smartSync has found a stamp written
\* less than an hour before to be an hour or more old, and has decided
\* 'quick'.
C39_Witness ==
    /\ Decided
    /\ tz = Hour
    /\ syncState.last_sync_at # NULL
    /\ SinceLastSync < Hour
    /\ now - DateParse(syncState.last_sync_at, tz) >= Hour
    /\ call[ev.s].type = "quick"

\* C39: on a host at UTC the stamp reads back as the instant it names.
C39_SameInstantAtUtc ==
    (tz = 0 /\ syncState.last_sync_at # NULL) =>
        DateParse(syncState.last_sync_at, tz) = UtcInstant(syncState.last_sync_at)

=============================================================================
